---- MODULE Spec2Model ----
(***************************************************************************)
(* Step execution engine of the integration SDK runtime:                   *)
(*   execution/dependencyGraph.ts  buildStepDependencyGraph and            *)
(*                                 executeStepDependencyGraph              *)
(* The dependency graph (DepGraph) and the promise queue (PromiseQueue)    *)
(* are modelled by the operations the scheduler calls on them.             *)
(*                                                                         *)
(* Synchronization pipeline of the same runtime:                           *)
(*   synchronization/index.ts      synchronizeCollectedData, uploadData,   *)
(*                                 uploadDataChunk and shrinkRawData       *)
(* Four specifications share the variables: Spec (the scheduler),          *)
(* SpecSync (one synchronizeCollectedData call), SpecPMap (such a call     *)
(* for one file of UPLOAD_CONCURRENCY + 1 batches) and SpecShrink          *)
(* (shrinkRawData calls on one batch).  Each leaves the variables of the   *)
(* other parts at their idle values.                                       *)
(***************************************************************************)
EXTENDS Integers, Sequences, FiniteSets, TLC

\* Number of steps handed to buildStepDependencyGraph.
NumSteps == 3

\* Largest number of objects in one parsed graph-object file of a step cache.
MaxBatch == 1

\* Largest number of steps whose start state is disabled.
MaxDisabled == 1

\* Largest number of steps whose start state carries a stepCachePath.
MaxCached == 1

\* The steps, named by their position in the `steps` array.
Steps == 1..NumSteps

\* A step id that a dependsOn may name although no step carries it.
UnknownStep == 0

PENDING_EVALUATION == "PENDING_EVALUATION"
DISABLED == "DISABLED"
SUCCESS == "SUCCESS"
FAILURE == "FAILURE"
PARTIAL == "PARTIAL_SUCCESS_DUE_TO_DEPENDENCY_FAILURE"
CACHED == "CACHED"

VARIABLES
    phase,            \* "init" | "configError" | "built" | "running"
    dependsOn,        \* step -> set of step ids named by its dependsOn
    stepStartStates,  \* step -> [disabled, stepCachePath]
    hasUploader,      \* createStepGraphObjectDataUploader was given
    workingGraph,     \* nodes left in the mutable clone of the input graph
    stepResultsMap,   \* insertion-ordered map: sequence of [id, status]
    pc,               \* step -> position of its executeStep call
    status,           \* step -> the local `status` of its executeStep call
    queue,            \* promiseQueue: tasks added and not yet started
    isPaused,         \* promiseQueue.isPaused
    pendingCount,     \* promiseQueue: tasks started and not yet finished
    runPromise,       \* the promise returned by executeStepDependencyGraph
    handler,          \* step -> its executionHandler: "none", "invoked", "returned", "threw", "threwFatal"
    uploads,          \* step -> its waitUntilUploadsComplete: "none", "ok", "failed"
    cacheYield,       \* step -> outcome of loadCacheForStep, "none" if not run
    escaped,          \* step -> where the error that left its executeStep arose
    \* synchronizeCollectedData
    syncPc,           \* position of the synchronizeCollectedData call
    files,            \* the parsed graph-object files: batches of each type
    uploaded,         \* the batches POSTed with success: <<uploadData call, batch>>
    pos,              \* the uploadData call in progress: file and type, 0 if none
    chunks,           \* batch of that call -> its uploadDataChunk (retry) state
    pMapRejected,     \* the pMap of that call was rejected by a mapper
    requested,        \* requests made for the job besides the awaited uploads
    caught,           \* `err` of the catch block, in a tuple, <<>> if none
    abortError,       \* `abortError` of the inner catch block, <<>> if none
    raised,           \* what the call throws once its finally block ends
    eventQueue,       \* events enqueued and not yet published
    \* shrinkRawData
    shrinkPc,         \* position of the shrinkRawData call
    data,             \* the batch, mutated in place
    maxSize,          \* the maxSize argument
    initialSize,      \* `initialSize`
    totalSize,        \* `totalSize`
    itemsRemoved,     \* `itemsRemoved`
    calls             \* calls of shrinkRawData made on the batch

schedulerVars == <<phase, dependsOn, stepStartStates, hasUploader, workingGraph,
                   stepResultsMap, pc, status, queue, isPaused, pendingCount,
                   runPromise, handler, uploads, cacheYield, escaped>>

syncVars == <<syncPc, files, uploaded, pos, chunks, pMapRejected, requested, caught,
              abortError, raised, eventQueue>>

shrinkVars == <<shrinkPc, data, maxSize, initialSize, totalSize, itemsRemoved,
                calls>>

vars == <<schedulerVars, syncVars, shrinkVars>>

----------------------------------------------------------------------------
(* DepGraph                                                                *)

RECURSIVE SortedSeq(_)
\* The elements of a set of step ids in the order they were added
\* (steps are added, and dependsOn is read, in ascending position).
SortedSeq(S) ==
    IF S = {} THEN <<>>
    ELSE LET m == CHOOSE x \in S : \A y \in S : x <= y
         IN <<m>> \o SortedSeq(S \ {m})

\* outgoingEdges of a graph holding `nodes`, with the edges of dependsOn
\* between them.
OutgoingEdges(nodes, n) == dependsOn[n] \cap nodes

\* incomingEdges of a graph holding `nodes`.
IncomingEdges(nodes, n) == {m \in nodes : n \in dependsOn[m]}

RECURSIVE DFSVisit(_, _, _, _, _)
RECURSIVE DFSEdges(_, _, _, _, _)
\* createDFS of DepGraph: depth-first walk along outgoing edges; a node is
\* appended to the result after its edges; meeting a node of the current
\* path is a cycle.
DFSVisit(nodes, leavesOnly, node, path, acc) ==
    IF acc.cycle \/ node \in acc.visited THEN acc
    ELSE IF node \in path THEN [acc EXCEPT !.cycle = TRUE]
    ELSE LET after == DFSEdges(nodes, leavesOnly,
                               SortedSeq(OutgoingEdges(nodes, node)),
                               path \cup {node}, acc)
         IN IF after.cycle THEN after
            ELSE [after EXCEPT
                    !.visited = @ \cup {node},
                    !.result = IF ~leavesOnly \/ OutgoingEdges(nodes, node) = {}
                               THEN Append(@, node) ELSE @]

DFSEdges(nodes, leavesOnly, todo, path, acc) ==
    IF todo = <<>> THEN acc
    ELSE DFSEdges(nodes, leavesOnly, Tail(todo), path,
                  DFSVisit(nodes, leavesOnly, Head(todo), path, acc))

DFSStart == [visited |-> {}, result |-> <<>>, cycle |-> FALSE]

\* DepGraph.overallOrder(leavesOnly): a cycle search from every node, then
\* the walk from the nodes nothing depends on.
overallOrder(nodes, leavesOnly) ==
    LET cycleDFS == DFSEdges(nodes, FALSE, SortedSeq(nodes), {}, DFSStart)
        starts == {n \in nodes : IncomingEdges(nodes, n) = {}}
        walk == DFSEdges(nodes, leavesOnly, SortedSeq(starts), {}, DFSStart)
    IN [threw |-> cycleDFS.cycle,
        order |-> IF cycleDFS.cycle THEN <<>> ELSE walk.result]

\* DepGraph.dependenciesOf(stepId) on the input graph: every node reachable
\* along outgoing edges, the node itself excluded.
dependenciesOf(stepId) ==
    LET walk == DFSEdges(Steps, FALSE, SortedSeq(OutgoingEdges(Steps, stepId)),
                         {stepId}, DFSStart)
    IN walk.visited

\* Variant: a dependency on an unknown node is ignored.
addDependencyThrows_never == FALSE

\* DepGraph.addDependency(from, to) throws when `to` is not a node.
addDependencyThrows == \E s \in Steps : \E d \in dependsOn[s] : d \notin Steps

\* buildStepDependencyGraph: add the nodes, add the dependencies, then
\* overallOrder(); TRUE when it throws.
buildStepDependencyGraphThrows ==
    addDependencyThrows \/ overallOrder(Steps, FALSE).threw

----------------------------------------------------------------------------
(* executeStepDependencyGraph: helpers                                     *)

\* stepResultsMap.get(stepId).status
resultStatus(map, stepId) ==
    LET i == CHOOSE i \in 1..Len(map) : map[i].id = stepId IN map[i].status

RECURSIVE WithoutId(_, _)
WithoutId(map, stepId) ==
    IF map = <<>> THEN <<>>
    ELSE IF Head(map).id = stepId THEN WithoutId(Tail(map), stepId)
         ELSE <<Head(map)>> \o WithoutId(Tail(map), stepId)

\* Variant: the entry is deleted and set again, which moves it to the end.
updateStepResultStatus_reinsert(map, stepId, st) ==
    Append(WithoutId(map, stepId), [id |-> stepId, status |-> st])

\* Map.set on a key already present keeps the key's position.
updateStepResultStatus(map, stepId, st) ==
    [i \in 1..Len(map) |->
        IF map[i].id = stepId THEN [map[i] EXCEPT !.status = st] ELSE map[i]]

\* buildStepResultsMap: one entry per step in overallOrder(); DISABLED when
\* the step or one of its dependenciesOf is disabled.
buildStepResultsMap(startStates) ==
    LET order == overallOrder(Steps, FALSE).order
    IN [i \in 1..Len(order) |->
          LET hasDisabledDependencies ==
                  {id \in dependenciesOf(order[i]) : startStates[id].disabled} # {}
          IN [id |-> order[i],
              status |-> IF startStates[order[i]].disabled \/ hasDisabledDependencies
                         THEN DISABLED ELSE PENDING_EVALUATION]]

\* Variant: the start state is not consulted.
isStepEnabled_always(startStates, stepId) == TRUE

isStepEnabled(startStates, stepId) == startStates[stepId].disabled = FALSE

hasCachePath(startStates, stepId) == startStates[stepId].stepCachePath

\* Variant: only the steps named in dependsOn are inspected.
stepHasDependencyFailure_direct(map, stepId) ==
    \E id \in OutgoingEdges(Steps, stepId) :
        resultStatus(map, id) \in {FAILURE, PARTIAL}

stepHasDependencyFailure(map, stepId) ==
    \E id \in dependenciesOf(stepId) :
        resultStatus(map, id) \in {FAILURE, PARTIAL}

\* Variant: a leaf of the working graph is taken to be ready.
stepDependenciesAreComplete_always(map, stepId) == TRUE

stepDependenciesAreComplete(map, stepId) ==
    {id \in dependenciesOf(stepId) :
        resultStatus(map, id) = PENDING_EVALUATION} = {}

\* Variant: a queue built with concurrency 1.
doesConcurrentAllowAnother_one(pending) == pending < 1

\* new PromiseQueue() sets no concurrency option, and the queue's default
\* concurrency is Infinity: pendingCount never reaches it.
doesConcurrentAllowAnother(pending) == TRUE

\* PromiseQueue: start the task at the head of the queue when the queue is
\* neither paused nor at its concurrency.  q = [queue, pending, started].
tryToStartAnother(q, paused) ==
    IF q.queue # <<>> /\ ~paused /\ doesConcurrentAllowAnother(q.pending)
    THEN [queue |-> Tail(q.queue), pending |-> q.pending + 1,
          started |-> q.started \cup {Head(q.queue)}]
    ELSE q

RECURSIVE addAll(_, _, _)
\* promiseQueue.add for each step of `todo` in order.
addAll(todo, q, paused) ==
    IF todo = <<>> THEN q
    ELSE addAll(Tail(todo),
                tryToStartAnother([q EXCEPT !.queue = Append(@, Head(todo))],
                                  paused),
                paused)

RECURSIVE SelectLeaves(_, _, _)
\* The leaves that pass the test of enqueueLeafSteps, in their order.
SelectLeaves(leaves, startStates, map) ==
    IF leaves = <<>> THEN <<>>
    ELSE LET rest == SelectLeaves(Tail(leaves), startStates, map)
         IN IF isStepEnabled(startStates, Head(leaves))
               /\ stepDependenciesAreComplete(map, Head(leaves))
            THEN <<Head(leaves)>> \o rest ELSE rest

\* enqueueLeafSteps: the steps it removes from the working graph and adds
\* to the promise queue, in order; none when the queue is paused.
enqueueLeafSteps(graph, startStates, map, paused) ==
    IF paused THEN <<>>
    ELSE SelectLeaves(overallOrder(graph, TRUE).order, startStates, map)

\* Variant: a dispatched step stays in the working graph.
removeStepFromWorkingGraph_keep(graph, dispatched) == graph

\* removeStepFromWorkingGraph for every step of `dispatched`: the node goes
\* with every edge to and from it.
removeStepFromWorkingGraph(graph, dispatched) ==
    graph \ {dispatched[i] : i \in 1..Len(dispatched)}

\* Where executeStep first suspends: in loadCacheForStep when the step has a
\* cache path, in its executionHandler otherwise.
firstAwait(startStates, stepId) ==
    IF hasCachePath(startStates, stepId) THEN "cache" ELSE "handler"

\* The files read from a step cache directory: at most one file per kind,
\* each a batch of 0..MaxBatch objects.
CacheFiles == {<<>>} \cup {<<n>> : n \in 0..MaxBatch}

RECURSIVE SumSeq(_)
SumSeq(q) == IF q = <<>> THEN 0 ELSE Head(q) + SumSeq(Tail(q))

\* loadCacheForStep: status starts FAILURE and becomes CACHED in the callback
\* run for each parsed file; the counts add up the batch lengths.
loadCacheForStep(entityFiles, relationshipFiles) ==
    [status |-> IF Len(entityFiles) + Len(relationshipFiles) > 0
                THEN CACHED ELSE FAILURE,
     objects |-> SumSeq(entityFiles) + SumSeq(relationshipFiles)]

NoCache == [outcome |-> "none", status |-> "none", objects |-> 0]

\* Variant: the run resolves as soon as nothing is queued.
resolveWhenIdle_empty(promise, q, map) ==
    IF q.queue = <<>> /\ promise.state = "pending"
    THEN [state |-> "resolved", value |-> map, reason |-> <<>>]
    ELSE promise

\* promiseQueue.onIdle().then(() => resolve([...stepResultsMap.values()])):
\* a settled promise ignores resolve.
resolveWhenIdle(promise, q, map) ==
    IF q.queue = <<>> /\ q.pending = 0 /\ promise.state = "pending"
    THEN [state |-> "resolved", value |-> map, reason |-> <<>>]
    ELSE promise

\* handleUnexpectedError's reject(err): a settled promise ignores reject.
rejectRun(promise, err) ==
    IF promise.state = "pending"
    THEN [state |-> "rejected", value |-> <<>>, reason |-> <<err>>]
    ELSE promise

----------------------------------------------------------------------------
(* Actions                                                                 *)

\* No synchronizeCollectedData call is made.
SyncIdle ==
    /\ syncPc = "idle"
    /\ files = <<>>
    /\ uploaded = {}
    /\ pos = 0
    /\ chunks = <<>>
    /\ pMapRejected = FALSE
    /\ requested = {}
    /\ caught = <<>>
    /\ abortError = <<>>
    /\ raised = <<>>
    /\ eventQueue = 0

\* No shrinkRawData call is made.
ShrinkIdle ==
    /\ shrinkPc = "idle"
    /\ data = <<>>
    /\ maxSize = 0
    /\ initialSize = 0
    /\ totalSize = 0
    /\ itemsRemoved = 0
    /\ calls = 0

Init ==
    /\ phase = "init"
    /\ dependsOn \in [Steps -> SUBSET (Steps \cup {UnknownStep})]
    /\ stepStartStates = [s \in Steps |-> [disabled |-> FALSE, stepCachePath |-> FALSE]]
    /\ hasUploader = FALSE
    /\ workingGraph = {}
    /\ stepResultsMap = <<>>
    /\ pc = [s \in Steps |-> "waiting"]
    /\ status = [s \in Steps |-> "none"]
    /\ queue = <<>>
    /\ isPaused = FALSE
    /\ pendingCount = 0
    /\ runPromise = [state |-> "none", value |-> <<>>, reason |-> <<>>]
    /\ handler = [s \in Steps |-> "none"]
    /\ uploads = [s \in Steps |-> "none"]
    /\ cacheYield = [s \in Steps |-> NoCache]
    /\ escaped = [s \in Steps |-> "none"]
    /\ SyncIdle
    /\ ShrinkIdle

\* buildStepDependencyGraph(steps)
BuildStepDependencyGraph ==
    /\ phase = "init"
    /\ phase' = IF buildStepDependencyGraphThrows THEN "configError" ELSE "built"
    /\ UNCHANGED <<dependsOn, stepStartStates, hasUploader, workingGraph,
                   stepResultsMap, pc, status, queue, isPaused, pendingCount,
                   runPromise, handler, uploads, cacheYield, escaped>>

\* The stepStartStates given to executeStepDependencyGraph.
StartStates ==
    {ss \in [Steps -> [disabled : BOOLEAN, stepCachePath : BOOLEAN]] :
        /\ Cardinality({s \in Steps : ss[s].disabled}) <= MaxDisabled
        /\ Cardinality({s \in Steps : ss[s].stepCachePath}) <= MaxCached}

\* What the start of executeStep(s) does for each step the queue started:
\* it runs to its first await.
StartSteps(started, startStates, pcs) ==
    [s \in Steps |-> IF s \in started THEN firstAwait(startStates, s) ELSE pcs[s]]

InvokeHandlers(started, startStates, h) ==
    [s \in Steps |->
        IF s \in started /\ ~hasCachePath(startStates, s) THEN "invoked" ELSE h[s]]

\* executeStepDependencyGraph up to the return of the promise: clone the
\* graph, seed the results map, enqueueLeafSteps(), onIdle().
ExecuteStepDependencyGraph ==
    /\ phase = "built"
    /\ \E startStates \in StartStates,
          uploader \in BOOLEAN :
        LET map == buildStepResultsMap(startStates)
            leaves == enqueueLeafSteps(Steps, startStates, map, FALSE)
            q == addAll(leaves, [queue |-> <<>>, pending |-> 0, started |-> {}], FALSE)
        IN /\ stepStartStates' = startStates
           /\ hasUploader' = uploader
           /\ stepResultsMap' = map
           /\ workingGraph' = removeStepFromWorkingGraph(Steps, leaves)
           /\ queue' = q.queue
           /\ pendingCount' = q.pending
           /\ pc' = StartSteps(q.started, startStates, pc)
           /\ handler' = InvokeHandlers(q.started, startStates, handler)
           /\ runPromise' = resolveWhenIdle(
                  [state |-> "pending", value |-> <<>>, reason |-> <<>>], q, map)
    /\ phase' = "running"
    /\ UNCHANGED <<dependsOn, status, isPaused, uploads, cacheYield, escaped>>

\* The end of executeStep(s): updateStepResultStatus, then enqueueLeafSteps.
CompleteStep(s, st) ==
    LET map == updateStepResultStatus(stepResultsMap, s, st)
        leaves == enqueueLeafSteps(workingGraph, stepStartStates, map, isPaused)
        q == addAll(leaves,
                    [queue |-> queue, pending |-> pendingCount, started |-> {}],
                    isPaused)
    IN /\ stepResultsMap' = map
       /\ status' = [status EXCEPT ![s] = st]
       /\ workingGraph' = removeStepFromWorkingGraph(workingGraph, leaves)
       /\ queue' = q.queue
       /\ pendingCount' = q.pending
       /\ pc' = [StartSteps(q.started, stepStartStates, pc) EXCEPT ![s] = "settled"]
       /\ handler' = InvokeHandlers(q.started, stepStartStates, handler)
       /\ UNCHANGED <<isPaused, runPromise, escaped>>

\* Variant: handleUnexpectedError rejects the run without pausing the queue.
EscapeStep_nopause(s, err) ==
    /\ isPaused' = isPaused
    /\ runPromise' = rejectRun(runPromise, err)
    /\ escaped' = [escaped EXCEPT ![s] = err.from]
    /\ pc' = [pc EXCEPT ![s] = "settled"]
    /\ UNCHANGED <<stepResultsMap, status, workingGraph, queue, pendingCount>>

\* An error leaves executeStep(s): the task's catch runs
\* handleUnexpectedError, which pauses the queue and rejects the run.
EscapeStep(s, err) ==
    /\ isPaused' = TRUE
    /\ runPromise' = rejectRun(runPromise, err)
    /\ escaped' = [escaped EXCEPT ![s] = err.from]
    /\ pc' = [pc EXCEPT ![s] = "settled"]
    /\ UNCHANGED <<stepResultsMap, status, workingGraph, queue, pendingCount>>

\* Variant: the handler is called whatever the cache load gave.
runsHandlerAfterCache_always(st) == TRUE

\* Variant: every error is rethrown.
rethrows_always(fatal) == TRUE

\* executeStep calls the executionHandler unless the cache load gave CACHED.
runsHandlerAfterCache(st) == st # CACHED

\* The catch of executeStep rethrows an error that carries `fatal`.
rethrows(fatal) == fatal

\* loadCacheForStep returns for step s.
LoadCacheReturns(s) ==
    /\ phase = "running" /\ pc[s] = "cache"
    /\ \E entityFiles \in CacheFiles, relationshipFiles \in CacheFiles :
        LET r == loadCacheForStep(entityFiles, relationshipFiles)
        IN /\ cacheYield' = [cacheYield EXCEPT ![s] =
                 [outcome |-> "returned", status |-> r.status, objects |-> r.objects]]
           /\ status' = [status EXCEPT ![s] = r.status]
           /\ IF runsHandlerAfterCache(r.status)
              THEN /\ pc' = [pc EXCEPT ![s] = "handler"]
                   /\ handler' = [handler EXCEPT ![s] = "invoked"]
              ELSE /\ pc' = [pc EXCEPT ![s] = "flush"]
                   /\ UNCHANGED handler
    /\ UNCHANGED <<phase, dependsOn, stepStartStates, hasUploader, workingGraph,
                   stepResultsMap, queue, isPaused, pendingCount, runPromise,
                   uploads, escaped>>

\* Variant: an error of the cache load is swallowed and the handler runs.
LoadCacheThrows_runsHandler(s, fatal, loaded) ==
    /\ phase = "running" /\ pc[s] = "cache"
    /\ cacheYield' = [cacheYield EXCEPT ![s] =
          [outcome |-> IF fatal THEN "threwFatal" ELSE "threw",
           status |-> "none", objects |-> loaded]]
    /\ pc' = [pc EXCEPT ![s] = "handler"]
    /\ handler' = [handler EXCEPT ![s] = "invoked"]
    /\ UNCHANGED <<phase, dependsOn, stepStartStates, hasUploader, workingGraph,
                   stepResultsMap, status, queue, isPaused, pendingCount,
                   runPromise, uploads, escaped>>

\* loadCacheForStep throws for step s, after loading `loaded` objects.
LoadCacheThrows(s, fatal, loaded) ==
    /\ phase = "running" /\ pc[s] = "cache"
    /\ cacheYield' = [cacheYield EXCEPT ![s] =
          [outcome |-> IF fatal THEN "threwFatal" ELSE "threw",
           status |-> "none", objects |-> loaded]]
    /\ IF rethrows(fatal)
       THEN EscapeStep(s, [step |-> s, from |-> "cache"])
       ELSE /\ status' = [status EXCEPT ![s] = FAILURE]
            /\ pc' = [pc EXCEPT ![s] = "flush"]
            /\ UNCHANGED <<stepResultsMap, workingGraph, queue, isPaused,
                           pendingCount, runPromise, escaped>>
    /\ UNCHANGED <<phase, dependsOn, stepStartStates, hasUploader, handler, uploads>>

\* step.executionHandler(context) returns for step s.
HandlerReturns(s) ==
    /\ phase = "running" /\ pc[s] = "handler"
    /\ status' = [status EXCEPT ![s] =
          IF stepHasDependencyFailure(stepResultsMap, s) THEN PARTIAL ELSE SUCCESS]
    /\ pc' = [pc EXCEPT ![s] = "flush"]
    /\ handler' = [handler EXCEPT ![s] = "returned"]
    /\ UNCHANGED <<phase, dependsOn, stepStartStates, hasUploader, workingGraph,
                   stepResultsMap, queue, isPaused, pendingCount, runPromise,
                   uploads, cacheYield, escaped>>

\* step.executionHandler(context) throws for step s.
HandlerThrows(s, fatal) ==
    /\ phase = "running" /\ pc[s] = "handler"
    /\ handler' = [handler EXCEPT ![s] = IF fatal THEN "threwFatal" ELSE "threw"]
    /\ IF rethrows(fatal)
       THEN EscapeStep(s, [step |-> s, from |-> "handler"])
       ELSE /\ status' = [status EXCEPT ![s] = FAILURE]
            /\ pc' = [pc EXCEPT ![s] = "flush"]
            /\ UNCHANGED <<stepResultsMap, workingGraph, queue, isPaused,
                           pendingCount, runPromise, escaped>>
    /\ UNCHANGED <<phase, dependsOn, stepStartStates, hasUploader, uploads, cacheYield>>

\* Variant: the status is recorded without awaiting the uploads.
awaitsUploads_never(uploader) == FALSE

\* executeStep awaits jobState.waitUntilUploadsComplete when the job state
\* has one, which it has when an uploader was created for the step.
awaitsUploads(uploader) == uploader

\* jobState.flush() returns for step s.
FlushReturns(s) ==
    /\ phase = "running" /\ pc[s] = "flush"
    /\ IF awaitsUploads(hasUploader)
       THEN /\ pc' = [pc EXCEPT ![s] = "upload"]
            /\ UNCHANGED <<stepResultsMap, status, workingGraph, queue, isPaused,
                           pendingCount, runPromise, handler, escaped>>
       ELSE CompleteStep(s, status[s])
    /\ UNCHANGED <<phase, dependsOn, stepStartStates, hasUploader, uploads, cacheYield>>

\* jobState.flush() throws for step s: nothing in executeStep catches it.
FlushThrows(s) ==
    /\ phase = "running" /\ pc[s] = "flush"
    /\ EscapeStep(s, [step |-> s, from |-> "flush"])
    /\ UNCHANGED <<phase, dependsOn, stepStartStates, hasUploader, handler,
                   uploads, cacheYield>>

\* jobState.waitUntilUploadsComplete() returns for step s.
UploadsComplete(s) ==
    /\ phase = "running" /\ pc[s] = "upload"
    /\ CompleteStep(s, status[s])
    /\ uploads' = [uploads EXCEPT ![s] = "ok"]
    /\ UNCHANGED <<phase, dependsOn, stepStartStates, hasUploader, cacheYield>>

\* jobState.waitUntilUploadsComplete() throws for step s.
UploadsFail(s) ==
    /\ phase = "running" /\ pc[s] = "upload"
    /\ CompleteStep(s, FAILURE)
    /\ uploads' = [uploads EXCEPT ![s] = "failed"]
    /\ UNCHANGED <<phase, dependsOn, stepStartStates, hasUploader, cacheYield>>

\* The queue's task for step s has settled: PromiseQueue._next() lowers
\* pendingCount, starts the next queued task if it may, and resolves
\* onIdle() when nothing is queued or pending.
QueueNext(s) ==
    /\ phase = "running" /\ pc[s] = "settled"
    /\ LET q == tryToStartAnother(
                    [queue |-> queue, pending |-> pendingCount - 1, started |-> {}],
                    isPaused)
       IN /\ queue' = q.queue
          /\ pendingCount' = q.pending
          /\ pc' = [StartSteps(q.started, stepStartStates, pc) EXCEPT ![s] = "finished"]
          /\ handler' = InvokeHandlers(q.started, stepStartStates, handler)
          /\ runPromise' = resolveWhenIdle(runPromise, q, stepResultsMap)
    /\ UNCHANGED <<phase, dependsOn, stepStartStates, hasUploader, workingGraph,
                   stepResultsMap, status, isPaused, uploads, cacheYield, escaped>>

\* The variables of the other two specifications.
notScheduler == <<syncVars, shrinkVars>>

Next ==
    \/ BuildStepDependencyGraph /\ UNCHANGED notScheduler
    \/ ExecuteStepDependencyGraph /\ UNCHANGED notScheduler
    \/ \E s \in Steps : LoadCacheReturns(s) /\ UNCHANGED notScheduler
    \/ \E s \in Steps, fatal \in BOOLEAN, loaded \in 0..MaxBatch :
          LoadCacheThrows(s, fatal, loaded) /\ UNCHANGED notScheduler
    \/ \E s \in Steps : HandlerReturns(s) /\ UNCHANGED notScheduler
    \/ \E s \in Steps, fatal \in BOOLEAN :
          HandlerThrows(s, fatal) /\ UNCHANGED notScheduler
    \/ \E s \in Steps : FlushReturns(s) /\ UNCHANGED notScheduler
    \/ \E s \in Steps : FlushThrows(s) /\ UNCHANGED notScheduler
    \/ \E s \in Steps : UploadsComplete(s) /\ UNCHANGED notScheduler
    \/ \E s \in Steps : UploadsFail(s) /\ UNCHANGED notScheduler
    \/ \E s \in Steps : QueueNext(s) /\ UNCHANGED notScheduler

Spec == Init /\ [][Next]_vars

----------------------------------------------------------------------------
(* Properties of the step scheduler                                        *)

RECURSIVE Closure(_, _)
Closure(S, k) ==
    IF k = 0 THEN S
    ELSE Closure(S \cup UNION {dependsOn[x] \cap Steps : x \in S}, k - 1)

\* The steps b depends on, directly or through other steps, read off
\* dependsOn itself.
TransitiveDependencies(b) == Closure(dependsOn[b] \cap Steps, NumSteps)

\* The status the results map holds for step s.
result(s) == resultStatus(stepResultsMap, s)

\* executeStep(s) has started.
Dispatched(s) == pc[s] # "waiting"

\* executeStep(s) has started and has neither returned nor thrown.
InFlight(s) == pc[s] \in {"cache", "handler", "flush", "upload"}

\* executeStep(s) returned: it wrote the status of s into the results map.
Completed(s) == pc[s] \in {"settled", "finished"} /\ escaped[s] = "none"

\* Some step the step s depends on ended FAILURE or PARTIAL.
DependencyFailed(s) ==
    \E d \in TransitiveDependencies(s) : result(d) \in {FAILURE, PARTIAL}

\* Step s is disabled or depends, directly or not, on a disabled step.
DisabledByStartStates(s) ==
    \/ stepStartStates[s].disabled
    \/ \E d \in TransitiveDependencies(s) : stepStartStates[d].disabled

\* C1: a step that depends on another, directly or transitively, starts
\* (cache load or executionHandler) only once the result status of every
\* such dependency has left PENDING_EVALUATION, whatever the interleaving
\* of the steps in flight and whatever the outcome of the dependency.
C1_DependentStartsAfterDependencies ==
    phase = "running" =>
        \A b \in Steps : Dispatched(b) =>
            \A a \in TransitiveDependencies(b) : result(a) # PENDING_EVALUATION

\* C1 witness: a step is running its handler after one of its dependencies
\* failed and another was loaded from cache.
C1_Witness ==
    /\ phase = "running"
    /\ \E b \in Steps : \E a1, a2 \in TransitiveDependencies(b) :
          /\ pc[b] = "handler"
          /\ result(a1) = FAILURE
          /\ result(a2) = CACHED

\* C2: a step whose start state is disabled, and a step that transitively
\* depends on one, has status DISABLED in the results and is never
\* dispatched: neither its cache load nor its executionHandler ever runs.
C2_DisabledStepsNeverRun ==
    phase = "running" =>
        \A s \in Steps : DisabledByStartStates(s) =>
            /\ result(s) = DISABLED
            /\ ~Dispatched(s)
            /\ s \in workingGraph
            /\ handler[s] = "none"
            /\ cacheYield[s].outcome = "none"
            /\ runPromise.state = "resolved" =>
                   resultStatus(runPromise.value, s) = DISABLED

\* C2 witness: the run resolved with A = SUCCESS, B disabled, and C, which
\* depends on B and is not itself disabled, DISABLED.
C2_Witness ==
    /\ runPromise.state = "resolved"
    /\ \E a, b, c \in Steps :
          /\ stepStartStates[b].disabled
          /\ ~stepStartStates[c].disabled
          /\ b \in dependsOn[c]
          /\ resultStatus(runPromise.value, a) = SUCCESS
          /\ resultStatus(runPromise.value, b) = DISABLED
          /\ resultStatus(runPromise.value, c) = DISABLED

\* C3: when the promise of executeStepDependencyGraph resolves, every step
\* of the returned results has a status other than PENDING_EVALUATION, no
\* step is in flight and none still waits to be dispatched.
C3_ResolvedOnlyWhenAllTerminal ==
    runPromise.state = "resolved" =>
        /\ Len(runPromise.value) = NumSteps
        /\ \A i \in 1..Len(runPromise.value) :
              runPromise.value[i].status # PENDING_EVALUATION
        /\ \A s \in Steps :
              /\ ~InFlight(s)
              /\ pc[s] # "settled"
              /\ pc[s] = "waiting" => result(s) = DISABLED
        /\ pendingCount = 0
        /\ queue = <<>>

\* C3 witness: the run resolved after two steps ran at the same time and
\* ended differently.
C3_Witness ==
    /\ runPromise.state = "resolved"
    /\ \E s, t \in Steps :
          /\ resultStatus(runPromise.value, s) = SUCCESS
          /\ resultStatus(runPromise.value, t) = FAILURE
          /\ s \notin TransitiveDependencies(t)
          /\ t \notin TransitiveDependencies(s)

C5_NonFatalErrorDoesNotHalt ==
    phase = "running" =>
        /\ \A s \in Steps : handler[s] = "threw" =>
              /\ escaped[s] \in {"none", "flush"}
              /\ pc[s] \in {"flush", "upload"} => status[s] = FAILURE
              /\ Completed(s) => result(s) = FAILURE
        /\ (isPaused \/ runPromise.state = "rejected") =>
              \E t \in Steps : \/ handler[t] = "threwFatal"
                                \/ cacheYield[t].outcome = "threwFatal"
                                \/ escaped[t] = "flush"
        /\ runPromise.state = "resolved" =>
              \A s, t \in Steps :
                  (handler[s] = "threw" /\ s \in TransitiveDependencies(t)
                     /\ ~DisabledByStartStates(t)) =>
                      /\ Completed(t)
                      /\ handler[t] # "none" \/ cacheYield[t].outcome # "none"

\* C5 witness: the run resolved although a handler threw a non-fatal error,
\* and a step depending on the failed step ran its handler.
C5_Witness ==
    /\ runPromise.state = "resolved"
    /\ \E s, t \in Steps :
          /\ handler[s] = "threw"
          /\ resultStatus(runPromise.value, s) = FAILURE
          /\ s \in dependsOn[t]
          /\ handler[t] \in {"returned", "threw"}

\* Step s threw an error marked fatal from its handler or its cache load.
ThrewFatal(s) == handler[s] = "threwFatal" \/ cacheYield[s].outcome = "threwFatal"

\* The error with which step s left executeStep.
ErrorOf(s) == [step |-> s, from |-> escaped[s]]

\* C6 as stated: once a handler or cache load has thrown an error marked
\* fatal, the queue is paused and the run promise is rejected with that
\* very error, never resolved.
C6_RejectsWithThatFatalError ==
    \A s \in Steps : ThrewFatal(s) =>
        /\ isPaused
        /\ runPromise.state = "rejected"
        /\ runPromise.reason = <<ErrorOf(s)>>

\* C6 amended: once a handler or cache load has thrown an error marked
\* fatal, the queue is paused, no step that was not yet dispatched is
\* dispatched afterwards while the steps in flight run on, and the run
\* promise is rejected and never resolves; its reason is the first error
\* that left an executeStep call (this fatal error unless another step in
\* flight had already thrown a fatal error or failed to flush), and it
\* never changes afterwards.
C6_FatalErrorHaltsRun ==
    /\ [](\A s \in Steps : ThrewFatal(s) =>
            /\ escaped[s] \in {"handler", "cache"}
            /\ isPaused
            /\ runPromise.state = "rejected"
            /\ \E t \in Steps : escaped[t] # "none"
                                /\ runPromise.reason = <<ErrorOf(t)>>)
    /\ [][/\ isPaused =>
              /\ isPaused'
              /\ \A s \in Steps : ~Dispatched(s) => ~Dispatched(s)'
          /\ runPromise.state = "rejected" => runPromise' = runPromise
          /\ \A s \in Steps :
                ((\A t \in Steps : escaped[t] = "none") /\ escaped'[s] # "none")
                    => runPromise'.reason = <<ErrorOf(s)'>>]_vars

\* C6 witness: a handler threw a fatal error while another step was in
\* flight and a third had not been dispatched; the step in flight has
\* completed since, and the third is still not dispatched.
C6_Witness ==
    /\ runPromise.state = "rejected"
    /\ \E s, t, u \in Steps :
          /\ handler[s] = "threwFatal"
          /\ runPromise.reason = <<ErrorOf(s)>>
          /\ Completed(t) /\ result(t) = SUCCESS
          /\ t \in dependsOn[u] /\ s \notin TransitiveDependencies(u)
          /\ ~Dispatched(u) /\ result(u) = PENDING_EVALUATION

\* The step ids of a results sequence, in its order.
Ids(map) == [i \in 1..Len(map) |-> map[i].id]

\* Every step occurs once in `order`, after all the steps it depends on.
IsTopologicalOrder(order) ==
    /\ Len(order) = NumSteps
    /\ {order[i] : i \in 1..Len(order)} = Steps
    /\ \A i, j \in 1..Len(order) :
          order[j] \in TransitiveDependencies(order[i]) => j < i

\* C7: the results are listed in the topological order in which the result
\* map was seeded from the input graph, whatever the order of dispatch and
\* completion: updating a status never moves an entry, and the array the
\* run resolves with has that order.
C7_ResultsInTopologicalOrder ==
    phase = "running" =>
        /\ Ids(stepResultsMap) = overallOrder(Steps, FALSE).order
        /\ IsTopologicalOrder(Ids(stepResultsMap))
        /\ runPromise.state = "resolved" =>
              Ids(runPromise.value) = Ids(stepResultsMap)

\* C7 witness: the run resolved in an order of results other than the
\* order of the steps array, a later entry having completed while an
\* earlier one was still in flight.
C7_Witness ==
    /\ phase = "running"
    /\ Ids(stepResultsMap) # [i \in 1..NumSteps |-> i]
    /\ \E i, j \in 1..Len(stepResultsMap) :
          /\ i < j
          /\ InFlight(stepResultsMap[i].id)
          /\ stepResultsMap[j].status \in {SUCCESS, FAILURE}

\* C8 as stated: at most one executeStep call is in flight at any time.
C8_AtMostOneInFlight ==
    Cardinality({s \in Steps : InFlight(s)}) <= 1

\* C8 amended: the scheduler's default work queue sets no concurrency, so
\* no step ever waits in the queue: every step that is ready is started at
\* once, and two steps are in flight at the same time only when neither
\* depends on the other (two independent leaves do run together).
C8_OnlyIndependentStepsOverlap ==
    /\ queue = <<>>
    /\ pendingCount = Cardinality({s \in Steps : InFlight(s) \/ pc[s] = "settled"})
    /\ \A s, t \in Steps :
          (InFlight(s) /\ InFlight(t) /\ s # t) =>
              /\ s \notin TransitiveDependencies(t)
              /\ t \notin TransitiveDependencies(s)

\* C8 witness: two independent leaves have their handlers running at the
\* same time.
C8_Witness ==
    \E s, t \in Steps :
        /\ s # t
        /\ dependsOn[s] = {} /\ dependsOn[t] = {}
        /\ pc[s] = "handler" /\ pc[t] = "handler"

\* Some step depends on itself through dependsOn.
HasCycle == \E s \in Steps : s \in TransitiveDependencies(s)

\* Some dependsOn names an id that no step carries.
NamesUnknownStep == \E s \in Steps : UnknownStep \in dependsOn[s]

\* C9: buildStepDependencyGraph raises an error, before any step is
\* executed, exactly when dependsOn has a cycle or names an unknown step;
\* when it returns a graph, a topological order of the steps exists.
C9_BuildRejectsCyclesAndUnknownSteps ==
    /\ phase = "configError" <=> (phase # "init" /\ (HasCycle \/ NamesUnknownStep))
    /\ phase = "configError" =>
          /\ \A s \in Steps : ~Dispatched(s) /\ handler[s] = "none"
          /\ runPromise.state = "none"
    /\ phase \in {"built", "running"} =>
          IsTopologicalOrder(overallOrder(Steps, FALSE).order)

\* C9 witness: the build failed on the steps A and B that depend on each
\* other.
C9_Witness ==
    /\ phase = "configError"
    /\ \E a, b \in Steps : a # b /\ dependsOn[a] = {b} /\ dependsOn[b] = {a}
    /\ ~NamesUnknownStep

\* Step s has a stepCachePath and its cache load has ended.
CacheLoadEnded(s) ==
    phase = "running" /\ stepStartStates[s].stepCachePath
    /\ cacheYield[s].outcome # "none"

\* C10 as stated: for a dispatched step with a stepCachePath, the handler
\* is invoked if and only if the cache load did not yield CACHED.
C10_HandlerIffNotCached ==
    \A s \in Steps : CacheLoadEnded(s) =>
        (handler[s] # "none" <=> cacheYield[s].status # CACHED)

\* C10 amended: for a dispatched step with a stepCachePath, the handler is
\* invoked if and only if the cache load returned without error and did
\* not yield CACHED.  When it yields CACHED the handler is never invoked
\* and the final status is CACHED; when it returns nothing the handler runs
\* and the handler path decides the status (flush and upload-wait
\* succeeding); when the cache load throws, the handler is not invoked.
C10_HandlerIffCacheReturnedNothing ==
    \A s \in Steps :
        /\ (phase = "running" /\ pc[s] = "cache") => handler[s] = "none"
        /\ CacheLoadEnded(s) =>
            /\ handler[s] # "none" <=>
                  (cacheYield[s].outcome = "returned" /\ cacheYield[s].status # CACHED)
            /\ (Completed(s) /\ uploads[s] # "failed") =>
                  result(s) =
                      IF cacheYield[s].outcome # "returned" THEN FAILURE
                      ELSE IF cacheYield[s].status = CACHED THEN CACHED
                      ELSE IF handler[s] = "threw" THEN FAILURE
                      ELSE IF DependencyFailed(s) THEN PARTIAL ELSE SUCCESS

\* C10 witness: a step loaded objects from its cache and completed CACHED
\* without its handler having been invoked.
C10_Witness ==
    \E s \in Steps :
        /\ CacheLoadEnded(s)
        /\ cacheYield[s].objects > 0
        /\ Completed(s)
        /\ result(s) = CACHED
        /\ handler[s] = "none"

----------------------------------------------------------------------------
(* synchronization/index.ts: synchronizeCollectedData                      *)

\* Largest number of parsed graph-object files iterateParsedGraphFiles hands
\* to uploadGraphObjectFile.
MaxFiles == 1

\* Largest number of batches chunk() cuts the entities, or the
\* relationships, of one file into.
MaxChunks == 2

\* `maxAttempts` of the retry options of uploadDataChunk.
maxAttempts == 5

UPLOAD_CONCURRENCY == 6

\* The files on disk, each by the number of batches that
\* chunk(data, uploadBatchSize || UPLOAD_BATCH_SIZE) makes of its entities and
\* of its relationships; 0 for an array that is empty or missing.
Files ==
    UNION {[1..n -> [entities : 0..MaxChunks, relationships : 0..MaxChunks]] :
              n \in 0..MaxFiles}

Chunks == 1..MaxChunks

\* What a failed POST of a batch can be: a 413 / RequestEntityTooLargeException,
\* a response body with error.code JOB_NOT_AWAITING_UPLOADS, both, or neither.
UploadErrorKinds == {"other", "tooLarge", "jobEnded", "tooLargeJobEnded"}

isRequestUploadTooLargeError(err) == err.code \in {"tooLarge", "tooLargeJobEnded"}

\* getSystemErrorResponseData(err)?.code === 'JOB_NOT_AWAITING_UPLOADS'
isJobNotAwaitingUploads(err) == err.code \in {"jobEnded", "tooLargeJobEnded"}

\* The error of a failed request or of a failed read: no IntegrationError.
RequestError(request, kind) ==
    [code |-> kind, integrationError |-> FALSE, fatal |-> FALSE,
     request |-> request, cause |-> <<>>]

IntegrationError(code, fatal, cause) ==
    [code |-> code, integrationError |-> TRUE, fatal |-> fatal,
     request |-> <<>>, cause |-> cause]

\* synchronizationApiError(err, message): an IntegrationError is handed on
\* as it is, any other error becomes the cause of a synchronization API
\* error.
synchronizationApiError(err) ==
    IF err.integrationError
    THEN err
    ELSE IntegrationError("SYNCHRONIZATION_API_ERROR", FALSE, <<err>>)

JobEnded(err) == IntegrationError("INTEGRATION_UPLOAD_AFTER_JOB_ENDED", TRUE, <<err>>)

CannotShrink == IntegrationError("INTEGRATION_UPLOAD_FAILED", FALSE, <<>>)

\* The uploadData calls of uploadCollectedData in order: call 2i-1 uploads
\* the entities of file i, call 2i its relationships.
batchesOf(fs, p) ==
    IF p % 2 = 1 THEN fs[(p + 1) \div 2].entities ELSE fs[p \div 2].relationships

\* Variant: only the entities of the first file are uploaded.
NextUpload_entitiesOnly(fs, p) ==
    IF p = 1 /\ Len(fs) > 0 /\ batchesOf(fs, 1) > 0 THEN 1 ELSE 0

\* The first uploadData call at or after p that uploadGraphObjectData makes
\* (the array is not empty), 0 when the iteration of the files is over.
NextUpload(fs, p) ==
    LET later == {q \in p..(2 * Len(fs)) : batchesOf(fs, q) > 0}
    IN IF later = {} THEN 0 ELSE CHOOSE q \in later : \A r \in later : q <= r

\* The uploadDataChunk call of a batch.  `batch` is the array the call was
\* given, "cut" as chunk() made it or "shrunk" once shrinkRawData returned
\* from it; `shrinks` counts the shrinkRawData calls made on it since its
\* last POST began.
NoChunk ==
    [state |-> "none", attemptNum |-> 0, attemptsRemaining |-> 0, thrown |-> <<>>,
     batch |-> "none", shrinks |-> 0]

QueuedChunk ==
    [state |-> "queued", attemptNum |-> 0, attemptsRemaining |-> maxAttempts,
     thrown |-> <<>>, batch |-> "cut", shrinks |-> 0]

\* retry(): makeAttempt takes one of the attempts that remain and calls the
\* attempt function, which POSTs `batch` as it then is.
makeAttempt(c) ==
    [c EXCEPT !.state = "posting",
              !.attemptsRemaining = IF @ > 0 THEN @ - 1 ELSE @,
              !.shrinks = 0]

\* Variant: shrinkRawData works on a copy and leaves the batch as it was.
shrinkRawDataInPlace_copy(batch) == batch

\* shrinkRawData(batch) returned: it has truncated raw data of the very
\* array it was given.
shrinkRawDataInPlace(batch) == "shrunk"

\* handleUploadDataChunkError calls shrinkRawData(batch) for an error that
\* isRequestUploadTooLargeError, before anything else.
shrinkAfter(c, err, shrinkThrows) ==
    IF isRequestUploadTooLargeError(err)
    THEN [c EXCEPT !.shrinks = @ + 1,
                   !.batch = IF shrinkThrows THEN @ ELSE shrinkRawDataInPlace(@)]
    ELSE c

\* pMap(batches, mapper, {concurrency}): the first UPLOAD_CONCURRENCY mappers
\* start at once, each with the first attempt of its batch.
startMappers(n) ==
    [b \in DOMAIN chunks |->
        IF b <= n /\ b <= UPLOAD_CONCURRENCY THEN makeAttempt(QueuedChunk)
        ELSE IF b <= n THEN QueuedChunk
        ELSE NoChunk]

\* Variant: the pMap goes on starting mappers after its rejection.
startQueued_afterRejection(ch, rejected) ==
    LET waiting == {b \in DOMAIN ch : ch[b].state = "queued"}
    IN IF waiting = {} THEN ch
       ELSE LET b == CHOOSE x \in waiting : \A y \in waiting : x <= y
            IN [ch EXCEPT ![b] = makeAttempt(@)]

\* pMap: a mapper that ended well lets the next batch in, unless the pMap
\* was rejected.
startQueued(ch, rejected) ==
    LET waiting == {b \in DOMAIN ch : ch[b].state = "queued"}
    IN IF rejected \/ waiting = {} THEN ch
       ELSE LET b == CHOOSE x \in waiting : \A y \in waiting : x <= y
            IN [ch EXCEPT ![b] = makeAttempt(@)]

\* The error handler of the retry, handleUploadDataChunkError: the error it
\* throws in a tuple, <<>> when it returns.  shrinkThrows: shrinkRawData
\* finds nothing to shrink in the batch.
handleUploadDataChunkError_retriesJobEnded(err, shrinkThrows) ==
    IF isRequestUploadTooLargeError(err) /\ shrinkThrows THEN <<CannotShrink>>
    ELSE <<>>

handleUploadDataChunkError(err, shrinkThrows) ==
    IF isRequestUploadTooLargeError(err)
    THEN IF shrinkThrows THEN <<CannotShrink>> ELSE <<>>
    ELSE IF isJobNotAwaitingUploads(err) THEN <<JobEnded(err)>>
    ELSE <<>>

\* retry(): after the error handler returned, the error of the attempt is
\* thrown when no attempt remains.
attemptsExhausted_never(c) == FALSE

attemptsExhausted(c) == c.attemptsRemaining = 0

\* The inner catch block of synchronizeCollectedData throws abortError.
thrownAfterFailedAbort_original(err, abortErr) == err

thrownAfterFailedAbort(err, abortErr) == abortErr

\* The state in which SpecSync leaves the scheduler.
SchedulerIdle ==
    /\ phase = "init"
    /\ dependsOn = [s \in Steps |-> {}]
    /\ stepStartStates = [s \in Steps |-> [disabled |-> FALSE, stepCachePath |-> FALSE]]
    /\ hasUploader = FALSE
    /\ workingGraph = {}
    /\ stepResultsMap = <<>>
    /\ pc = [s \in Steps |-> "waiting"]
    /\ status = [s \in Steps |-> "none"]
    /\ queue = <<>>
    /\ isPaused = FALSE
    /\ pendingCount = 0
    /\ runPromise = [state |-> "none", value |-> <<>>, reason |-> <<>>]
    /\ handler = [s \in Steps |-> "none"]
    /\ uploads = [s \in Steps |-> "none"]
    /\ cacheYield = [s \in Steps |-> NoCache]
    /\ escaped = [s \in Steps |-> "none"]

\* The variables of the other two specifications.
notSync == <<schedulerVars, shrinkVars>>

\* synchronizeCollectedData was called and awaits the POST of
\* initiateSynchronization.
InitSync ==
    /\ SchedulerIdle
    /\ ShrinkIdle
    /\ syncPc = "initiating"
    /\ files \in Files
    /\ uploaded = {}
    /\ pos = 0
    /\ chunks = [b \in Chunks |-> NoChunk]
    /\ pMapRejected = FALSE
    /\ requested = {}
    /\ caught = <<>>
    /\ abortError = <<>>
    /\ raised = <<>>
    /\ eventQueue = 0

\* The catch block of synchronizeCollectedData: it logs err and calls
\* abortSynchronization, which POSTs the abort request.
CatchAndAbort(err) ==
    /\ caught' = <<err>>
    /\ syncPc' = "aborting"
    /\ requested' = requested \cup {"abort"}

\* uploadCollectedData from the uploadData call p on: the call starts its
\* mappers, or the files are over, synchronizationUploadEnd is logged and
\* getPartialDatasets reads summary.json.
UploadFrom(p, events) ==
    LET q == NextUpload(files, p)
    IN IF q = 0
       THEN /\ syncPc' = "readingPartial"
            /\ pos' = 0
            /\ chunks' = [b \in DOMAIN chunks |-> NoChunk]
            /\ eventQueue' = events + 1
       ELSE /\ syncPc' = "uploading"
            /\ pos' = q
            /\ chunks' = startMappers(batchesOf(files, q))
            /\ eventQueue' = events

\* The POST of initiateSynchronization succeeds: the event queue is made,
\* synchronizationUploadStart is logged and the upload begins.
InitiateReturns ==
    /\ syncPc = "initiating"
    /\ UploadFrom(1, eventQueue + 1)
    /\ UNCHANGED <<files, uploaded, pMapRejected, requested, caught, abortError, raised>>
    /\ UNCHANGED notSync

\* The POST of initiateSynchronization fails: the error leaves
\* synchronizeCollectedData before its try block.
InitiateThrows ==
    /\ syncPc = "initiating"
    /\ syncPc' = "threw"
    /\ raised' = <<synchronizationApiError(RequestError(<<"initiate">>, "other"))>>
    /\ UNCHANGED <<files, uploaded, pos, chunks, pMapRejected, requested, caught,
                   abortError, eventQueue>>
    /\ UNCHANGED notSync

\* Variant: the pMap resolves as soon as one mapper has ended well.
pMapResolved_first(ch, rejected) ==
    ~rejected /\ \E c \in DOMAIN ch : ch[c].state = "done"

\* `await pMap(...)` of uploadData resolves when every mapper has ended
\* well: no mapper is waiting, in flight or rejected.
pMapResolved(ch, rejected) ==
    ~rejected /\ \A c \in DOMAIN ch : ch[c].state \in {"none", "done"}

\* The POST of batch b succeeds: its mapper ends, and when it was the last
\* one of a pMap not rejected, uploadData returns and the upload goes on.
PostSucceeds(b) ==
    /\ chunks[b].state = "posting"
    /\ LET done == [chunks EXCEPT ![b].state = "done"]
           ch == startQueued(done, pMapRejected)
       IN IF pMapResolved(ch, pMapRejected)
          THEN UploadFrom(pos + 1, eventQueue)
          ELSE /\ chunks' = ch
               /\ UNCHANGED <<syncPc, pos, eventQueue>>
    /\ uploaded' = uploaded \cup {<<pos, b>>}
    /\ UNCHANGED <<files, pMapRejected, requested, caught, abortError, raised>>
    /\ UNCHANGED notSync

\* The POST of batch b fails.  The error handler runs; when it throws, or
\* when no attempt remains, uploadDataChunk throws and the mapper of b is
\* rejected; the first rejection rejects the pMap, uploadGraphObjectData
\* wraps the error and synchronizeCollectedData catches it.  Otherwise the
\* retry sleeps before its next attempt.
PostFails(b, kind, shrinkThrows) ==
    /\ chunks[b].state = "posting"
    /\ LET err == RequestError(<<"upload", pos, b, chunks[b].attemptNum>>, kind)
           handled == handleUploadDataChunkError(err, shrinkThrows)
           thrown == IF handled # <<>> THEN handled
                     ELSE IF attemptsExhausted(chunks[b]) THEN <<err>>
                     ELSE <<>>
           c == shrinkAfter(chunks[b], err, shrinkThrows)
       IN IF thrown = <<>>
          THEN /\ chunks' = [chunks EXCEPT ![b] =
                                [c EXCEPT !.state = "delay", !.attemptNum = @ + 1]]
               /\ UNCHANGED <<syncPc, pMapRejected, requested, caught>>
          ELSE /\ chunks' = [chunks EXCEPT ![b] =
                                [c EXCEPT !.state = "failed", !.thrown = thrown]]
               /\ IF pMapRejected
                  THEN UNCHANGED <<syncPc, pMapRejected, requested, caught>>
                  ELSE /\ pMapRejected' = TRUE
                       /\ CatchAndAbort(synchronizationApiError(thrown[1]))
    /\ UNCHANGED <<files, uploaded, pos, abortError, raised, eventQueue>>
    /\ UNCHANGED notSync

\* The delay of the retry of batch b is over: the next attempt POSTs the
\* batch again.
RetryAttempt(b) ==
    /\ chunks[b].state = "delay"
    /\ chunks' = [chunks EXCEPT ![b] = makeAttempt(@)]
    /\ requested' = IF requested = {} THEN requested
                    ELSE requested \cup {"lateUpload"}
    /\ UNCHANGED <<syncPc, files, uploaded, pos, pMapRejected, caught, abortError, raised,
                   eventQueue>>
    /\ UNCHANGED notSync

\* getPartialDatasets returns: finalizeSynchronization POSTs the finalize
\* request.
ReadPartialDatasetsReturns ==
    /\ syncPc = "readingPartial"
    /\ syncPc' = "finalizing"
    /\ requested' = requested \cup {"finalize"}
    /\ UNCHANGED <<files, uploaded, pos, chunks, pMapRejected, caught, abortError, raised,
                   eventQueue>>
    /\ UNCHANGED notSync

\* Variant: an error of getPartialDatasets leaves the call without an abort.
ReadPartialDatasetsThrows_noabort ==
    /\ syncPc = "readingPartial"
    /\ syncPc' = "draining"
    /\ caught' = <<RequestError(<<"partialDatasets">>, "other")>>
    /\ raised' = caught'
    /\ UNCHANGED <<files, uploaded, pos, chunks, pMapRejected, requested, abortError,
                   eventQueue>>
    /\ UNCHANGED notSync

\* getPartialDatasets throws (summary.json cannot be read).
ReadPartialDatasetsThrows ==
    /\ syncPc = "readingPartial"
    /\ CatchAndAbort(RequestError(<<"partialDatasets">>, "other"))
    /\ UNCHANGED <<files, uploaded, pos, chunks, pMapRejected, abortError, raised,
                   eventQueue>>
    /\ UNCHANGED notSync

\* The finalize request succeeds: the finalized job is returned once the
\* finally block ends.
FinalizeReturns ==
    /\ syncPc = "finalizing"
    /\ syncPc' = "draining"
    /\ UNCHANGED <<files, uploaded, pos, chunks, pMapRejected, requested, caught,
                   abortError, raised, eventQueue>>
    /\ UNCHANGED notSync

\* The finalize request fails: finalizeSynchronization throws inside the
\* try block.
FinalizeThrows ==
    /\ syncPc = "finalizing"
    /\ CatchAndAbort(synchronizationApiError(RequestError(<<"finalize">>, "other")))
    /\ UNCHANGED <<files, uploaded, pos, chunks, pMapRejected, abortError, raised,
                   eventQueue>>
    /\ UNCHANGED notSync

\* The abort request succeeds: `throw err`.
AbortReturns ==
    /\ syncPc = "aborting"
    /\ syncPc' = "draining"
    /\ raised' = caught
    /\ UNCHANGED <<files, uploaded, pos, chunks, pMapRejected, requested, caught,
                   abortError, eventQueue>>
    /\ UNCHANGED notSync

\* The abort request fails: abortError is logged and thrown.
AbortThrows ==
    /\ syncPc = "aborting"
    /\ syncPc' = "draining"
    /\ abortError' = <<synchronizationApiError(RequestError(<<"abort">>, "other"))>>
    /\ raised' = <<thrownAfterFailedAbort(caught[1], abortError'[1])>>
    /\ UNCHANGED <<files, uploaded, pos, chunks, pMapRejected, requested, caught,
                   eventQueue>>
    /\ UNCHANGED notSync

\* The event publishing queue sent one event.
PublishEvent ==
    /\ eventQueue > 0
    /\ eventQueue' = eventQueue - 1
    /\ UNCHANGED <<syncPc, files, uploaded, pos, chunks, pMapRejected, requested, caught,
                   abortError, raised>>
    /\ UNCHANGED notSync

\* eventPublishingQueue.onIdle() resolves when no event is queued or being
\* published.
onIdle(events) == events = 0

\* Variant: the call returns or throws without a finally block.
Settle_noFinally ==
    /\ syncPc = "draining"
    /\ syncPc' = IF raised = <<>> THEN "returned" ELSE "threw"
    /\ UNCHANGED <<files, uploaded, pos, chunks, pMapRejected, requested, caught,
                   abortError, raised, eventQueue>>
    /\ UNCHANGED notSync

\* The finally block: eventPublishingQueue.onIdle() resolved, the call
\* returns the job or throws.
Settle ==
    /\ syncPc = "draining"
    /\ onIdle(eventQueue)
    /\ syncPc' = IF raised = <<>> THEN "returned" ELSE "threw"
    /\ UNCHANGED <<files, uploaded, pos, chunks, pMapRejected, requested, caught,
                   abortError, raised, eventQueue>>
    /\ UNCHANGED notSync

NextSync ==
    \/ InitiateReturns
    \/ InitiateThrows
    \/ \E b \in Chunks : PostSucceeds(b)
    \/ \E b \in Chunks, kind \in UploadErrorKinds, shrinkThrows \in BOOLEAN :
          PostFails(b, kind, shrinkThrows)
    \/ \E b \in Chunks : RetryAttempt(b)
    \/ ReadPartialDatasetsReturns
    \/ ReadPartialDatasetsThrows
    \/ FinalizeReturns
    \/ FinalizeThrows
    \/ AbortReturns
    \/ AbortThrows
    \/ PublishEvent
    \/ Settle

SpecSync == InitSync /\ [][NextSync]_vars

\* Batches of the file of SpecPMap whose POST may fail.
MaxFailing == 2

\* What a failed POST can be in SpecPMap: no batch is too large there.
PMapErrorKinds == {"other", "jobEnded"}

\* The batches of an uploadData call that holds one batch more than pMap
\* runs at once.
PMapBatches == 1..(UPLOAD_CONCURRENCY + 1)

\* synchronizeCollectedData was called for one graph-object file whose
\* entities make UPLOAD_CONCURRENCY + 1 batches.
InitPMap ==
    /\ SchedulerIdle
    /\ ShrinkIdle
    /\ syncPc = "initiating"
    /\ files = <<[entities |-> UPLOAD_CONCURRENCY + 1, relationships |-> 0]>>
    /\ uploaded = {}
    /\ pos = 0
    /\ chunks = [b \in PMapBatches |-> NoChunk]
    /\ pMapRejected = FALSE
    /\ requested = {}
    /\ caught = <<>>
    /\ abortError = <<>>
    /\ raised = <<>>
    /\ eventQueue = 0

NextPMap ==
    \/ InitiateReturns
    \/ InitiateThrows
    \/ \E b \in PMapBatches : PostSucceeds(b)
    \/ \E b \in 1..MaxFailing, kind \in PMapErrorKinds : PostFails(b, kind, FALSE)
    \/ \E b \in PMapBatches : RetryAttempt(b)
    \/ ReadPartialDatasetsReturns
    \/ ReadPartialDatasetsThrows
    \/ FinalizeReturns
    \/ FinalizeThrows
    \/ AbortReturns
    \/ AbortThrows
    \/ PublishEvent
    \/ Settle

SpecPMap == InitPMap /\ [][NextPMap]_vars

----------------------------------------------------------------------------
(* Properties of synchronizeCollectedData                                  *)

\* initiateSynchronization returned a job.
JobInitiated ==
    /\ syncPc \notin {"idle", "initiating"}
    /\ ~(syncPc = "threw" /\ caught = <<>>)

\* The try / catch of synchronizeCollectedData is over.
TryEnded == syncPc \in {"draining", "returned", "threw"}

FinalizeOrAbort == requested \cap {"finalize", "abort"}

\* The finalize request of the job failed.
FinalizeFailed ==
    caught = <<synchronizationApiError(RequestError(<<"finalize">>, "other"))>>

Failed(b) == chunks[b].state = "failed"

\* The error of the POST of batch b that failed as its attempt n.
IsPostError(err, b, n) ==
    /\ ~err.integrationError
    /\ err.request = <<"upload", pos, b, n>>

\* C11 as stated: for a job that synchronizeCollectedData initiated, the
\* finalize request and the abort request are never both made, and one of
\* them has been made when the try / catch is over.
C11_ExactlyOneOfFinalizeAndAbort ==
    JobInitiated =>
        /\ Cardinality(FinalizeOrAbort) <= 1
        /\ TryEnded => Cardinality(FinalizeOrAbort) = 1

\* C11 amended: for a job that synchronizeCollectedData initiated, at least
\* one of the finalize request and the abort request has been made when
\* the try / catch is over, each is made at most once, and finalize is
\* never requested after abort; both are made exactly when the finalize
\* request itself failed, the abort request then following it.  On every
\* other path exactly one of the two is made.
C11_FinalizeOrAbortOnEveryPath ==
    /\ [](JobInitiated =>
            /\ TryEnded => FinalizeOrAbort # {}
            /\ FinalizeOrAbort = {"finalize", "abort"} <=> FinalizeFailed
            /\ syncPc = "returned" => FinalizeOrAbort = {"finalize"})
    /\ [][/\ (syncPc' = "aborting" /\ syncPc # "aborting")
                => "abort" \notin requested
          /\ (syncPc' = "finalizing" /\ syncPc # "finalizing")
                => FinalizeOrAbort = {}]_vars

\* C11 witness: the call threw after the finalize request failed and the
\* abort request was made for the same job.
C11_Witness ==
    /\ syncPc = "threw"
    /\ FinalizeFailed
    /\ FinalizeOrAbort = {"finalize", "abort"}

\* C12: an error thrown after the initiation, by the upload, by the read of
\* the partial datasets or by the finalize request, is followed by the
\* abort request; the call then throws the error it caught when the abort
\* request succeeded, and the error of the abort request when that failed.
C12_AbortThenOriginalOrAbortError ==
    /\ (caught # <<>> \/ \E b \in Chunks : Failed(b)) => "abort" \in requested
    /\ (TryEnded /\ JobInitiated) =>
          /\ raised = (IF caught = <<>> THEN <<>>
                       ELSE IF abortError = <<>> THEN caught
                       ELSE abortError)
          /\ abortError # <<>> => caught # <<>>
    /\ (syncPc = "threw" /\ JobInitiated) => caught # <<>>
    /\ syncPc = "returned" => caught = <<>>

\* C12 witness: the upload failed, the abort request failed too, and the
\* call threw the error of the abort request, which is not the one caught.
C12_Witness ==
    /\ syncPc = "threw"
    /\ pMapRejected
    /\ abortError # <<>>
    /\ raised = abortError
    /\ caught # abortError

\* C13 as stated: uploadDataChunk makes at most 5 attempts for a batch and
\* after the 5th failure throws the error of that last attempt.
C13_FiveAttemptsThenLastError ==
    \A b \in Chunks :
        /\ chunks[b].attemptNum < maxAttempts
        /\ (Failed(b) /\ chunks[b].attemptNum = maxAttempts - 1)
              => IsPostError(chunks[b].thrown[1], b, chunks[b].attemptNum)

\* C13 amended: uploadDataChunk makes at most 5 attempts for a batch, makes
\* none after an attempt succeeded (the batch stays as it is until the next
\* uploadData call) or after it threw, and retries a failed attempt only
\* while attempts remain.  It throws either the error of its error handler
\* (INTEGRATION_UPLOAD_AFTER_JOB_ENDED, whose cause is the error of the last
\* attempt, or INTEGRATION_UPLOAD_FAILED when the batch cannot shrink),
\* after any attempt, the 5th included, or, after the 5th failure only, the
\* error of that last attempt.  The first error thrown for a batch of an
\* uploadData call reaches synchronizeCollectedData as a synchronization
\* API error.
C13_AtMostFiveAttempts ==
    /\ [](\A b \in Chunks :
            /\ chunks[b].attemptNum < maxAttempts
            /\ chunks[b].attemptNum + chunks[b].attemptsRemaining
                  = (IF chunks[b].state \in {"none", "queued"}
                     THEN chunks[b].attemptsRemaining
                     ELSE IF chunks[b].state = "delay" THEN maxAttempts
                     ELSE maxAttempts - 1)
            /\ Failed(b) =>
                  LET err == chunks[b].thrown[1]
                      n == chunks[b].attemptNum
                  IN \/ err = CannotShrink
                     \/ /\ err.code = "INTEGRATION_UPLOAD_AFTER_JOB_ENDED"
                        /\ IsPostError(err.cause[1], b, n)
                     \/ /\ IsPostError(err, b, n)
                        /\ n = maxAttempts - 1)
    /\ [](pMapRejected =>
            \E b \in Chunks :
                /\ Failed(b)
                /\ caught = <<synchronizationApiError(chunks[b].thrown[1])>>
                /\ caught[1].integrationError)
    /\ [][\A b \in Chunks :
            /\ chunks[b].state = "done" => (chunks'[b] = chunks[b] \/ pos' # pos)
            /\ chunks[b].state = "failed" => chunks'[b] = chunks[b]
            /\ chunks'[b].state = "delay" => chunks'[b].attemptsRemaining > 0
            /\ chunks'[b].attemptNum > chunks[b].attemptNum
                  => /\ chunks[b].state = "posting"
                     /\ chunks'[b].attemptNum = chunks[b].attemptNum + 1]_vars

\* C13 witness: the 5th attempt of a batch failed with an error its handler
\* let pass; uploadDataChunk threw it and synchronizeCollectedData caught
\* the synchronization API error that wraps it.
C13_Witness ==
    \E b \in Chunks :
        /\ Failed(b)
        /\ chunks[b].attemptNum = maxAttempts - 1
        /\ chunks[b].attemptsRemaining = 0
        /\ IsPostError(chunks[b].thrown[1], b, maxAttempts - 1)
        /\ caught = <<IntegrationError("SYNCHRONIZATION_API_ERROR", FALSE,
                                       chunks[b].thrown)>>

\* uploadDataChunk threw INTEGRATION_UPLOAD_AFTER_JOB_ENDED for batch b.
ThrewJobEnded(b) ==
    /\ Failed(b)
    /\ chunks[b].thrown[1].code = "INTEGRATION_UPLOAD_AFTER_JOB_ENDED"

\* C14 as stated: once an attempt failed with JOB_NOT_AWAITING_UPLOADS, the
\* call of synchronizeCollectedData that throws throws the fatal
\* INTEGRATION_UPLOAD_AFTER_JOB_ENDED.
C14_CallFailsWithJobEnded ==
    (syncPc = "threw" /\ \E b \in Chunks : ThrewJobEnded(b))
        => /\ raised[1].code = "INTEGRATION_UPLOAD_AFTER_JOB_ENDED"
           /\ raised[1].fatal

\* C14 amended: an attempt that fails with JOB_NOT_AWAITING_UPLOADS, and
\* not with a too-large error, is not retried whatever attempts remain:
\* uploadDataChunk throws a fatal INTEGRATION_UPLOAD_AFTER_JOB_ENDED whose
\* cause is the error of the attempt, and the abort request has been made
\* by then.  When it is the first error of its uploadData call,
\* synchronizeCollectedData catches it unwrapped and throws it if the abort
\* request succeeds; if the abort request fails, the call throws the abort
\* error instead, and if another batch of the call failed first, the call
\* throws that batch's error.
C14_JobEndedStopsRetrying ==
    /\ [][\A b \in Chunks, shrinkThrows \in BOOLEAN :
            PostFails(b, "jobEnded", shrinkThrows) =>
                LET err == RequestError(<<"upload", pos, b, chunks[b].attemptNum>>,
                                        "jobEnded")
                IN /\ chunks'[b].state = "failed"
                   /\ chunks'[b].thrown = <<JobEnded(err)>>
                   /\ chunks'[b].thrown[1].fatal
                   /\ chunks'[b].attemptNum = chunks[b].attemptNum
                   /\ "abort" \in requested'
                   /\ ~pMapRejected => caught' = chunks'[b].thrown]_vars
    /\ [](\A b \in Chunks :
            (ThrewJobEnded(b) /\ caught = chunks[b].thrown /\ syncPc = "threw")
                => raised = (IF abortError = <<>> THEN caught ELSE abortError))

\* C14 witness: the first attempt of a batch failed with
\* JOB_NOT_AWAITING_UPLOADS, no other attempt was made for it, the abort
\* request was made and succeeded, and the call threw the fatal error.
C14_Witness ==
    \E b \in Chunks :
        /\ ThrewJobEnded(b)
        /\ chunks[b].attemptNum = 0
        /\ chunks[b].attemptsRemaining = maxAttempts - 1
        /\ syncPc = "threw"
        /\ "abort" \in requested
        /\ abortError = <<>>
        /\ raised = chunks[b].thrown
        /\ raised[1].fatal

\* C23: when a POST of a batch fails with 413 or
\* RequestEntityTooLargeException, shrinkRawData is called on the batch
\* once, on nothing else and at no other time; when it returns and attempts
\* remain, the retry waits and its next attempt POSTs that same array, as
\* shrinkRawData left it; when it throws, the batch is not tried again and
\* uploadDataChunk throws that error, which rejects the pMap unless another
\* batch rejected it before.  A failure of any other kind shrinks nothing.
C23_ShrinkOnceThenRetrySameBatch ==
    [][\A b \in Chunks :
          /\ \A kind \in UploadErrorKinds, shrinkThrows \in BOOLEAN :
                PostFails(b, kind, shrinkThrows) =>
                    IF kind \in {"tooLarge", "tooLargeJobEnded"}
                    THEN /\ chunks'[b].shrinks = 1
                         /\ shrinkThrows =>
                               /\ chunks'[b].state = "failed"
                               /\ chunks'[b].thrown = <<CannotShrink>>
                               /\ ~pMapRejected => caught' = <<CannotShrink>>
                         /\ (~shrinkThrows /\ chunks[b].attemptsRemaining > 0) =>
                               /\ chunks'[b].state = "delay"
                               /\ chunks'[b].batch = "shrunk"
                    ELSE /\ chunks'[b].shrinks = 0
                         /\ chunks'[b].batch = chunks[b].batch
          /\ chunks[b].state = "delay" =>
                \/ chunks'[b] = chunks[b]
                \/ /\ chunks'[b].state = "posting"
                   /\ chunks'[b].batch = chunks[b].batch
                   /\ chunks'[b].attemptNum = chunks[b].attemptNum
          /\ chunks[b].state = "failed" => chunks'[b].state = "failed"]_vars

\* C23 witness: the first POST of a batch failed as too large, and the
\* second attempt POSTs the batch that shrinkRawData has shrunk.
C23_Witness ==
    \E b \in Chunks :
        /\ chunks[b].state = "posting"
        /\ chunks[b].attemptNum = 1
        /\ chunks[b].batch = "shrunk"

\* The batches of the uploadData call in progress.
BatchesOfCall == IF pos = 0 THEN {} ELSE 1..batchesOf(files, pos)

\* uploadData call p uploads the relationships of a file that has entities.
RelationshipsAfterEntities(p) ==
    p > 0 /\ p % 2 = 0 /\ batchesOf(files, p - 1) > 0

\* C24: uploadGraphObjectData uploads the entities of a file before its
\* relationships.  The upload of the relationships begins only at the
\* moment the last entity batch of the file has been POSTed with success,
\* every other entity batch having succeeded before; only batches of the
\* uploadData call in progress are POSTed; and once an entity batch has
\* failed for good the call in progress stays the same for ever, so that no
\* relationship batch of the file is POSTed.
C24_EntitiesBeforeRelationships ==
    /\ [](/\ \A b \in Chunks :
                chunks[b].state # "none" => b \in BatchesOfCall
          /\ (\E b \in Chunks : Failed(b)) => pMapRejected)
    /\ [][/\ pos' # pos =>
                /\ ~pMapRejected
                /\ \A b \in BatchesOfCall : chunks[b].state \in {"done", "posting"}
                /\ pos # 0 => Cardinality({b \in BatchesOfCall :
                                             chunks[b].state = "posting"}) = 1
                /\ pos' # 0 =>
                      /\ pos' > pos
                      /\ \A q \in (pos + 1)..(pos' - 1) : batchesOf(files, q) = 0
          /\ pMapRejected => (pMapRejected' /\ pos' = pos)
          /\ \A b \in Chunks :
                (chunks[b].state \in {"none", "queued"}
                   /\ chunks'[b].state = "posting")
                    => ~pMapRejected]_vars

\* C24 witness: a relationship batch is being POSTed for the first time
\* after the two entity batches of the same file were uploaded.
C24_Witness ==
    /\ RelationshipsAfterEntities(pos)
    /\ batchesOf(files, pos - 1) = 2
    /\ \E b \in Chunks : chunks[b].state = "posting" /\ chunks[b].attemptNum = 0

\* synchronizeCollectedData has returned or thrown to its caller.
Settled == syncPc \in {"returned", "threw"}

\* C25: for a job that was initiated, synchronizeCollectedData returns or
\* throws only from its finally block and only when the event publishing
\* queue is idle.  Every way out of the try / catch leads there: a finalize
\* request that succeeded, an abort request that succeeded after a failure,
\* and an abort request that failed.
C25_SettlesOnlyWhenEventQueueIdle ==
    /\ []((JobInitiated /\ Settled) => eventQueue = 0)
    /\ [][/\ (JobInitiated' /\ Settled' /\ ~Settled) =>
                /\ syncPc = "draining"
                /\ eventQueue = 0
          /\ syncPc = "finalizing" =>
                syncPc' \in {"finalizing", "draining", "aborting"}
          /\ syncPc = "aborting" => syncPc' \in {"aborting", "draining"}
          /\ syncPc = "draining" => /\ raised' = raised
                                    /\ syncPc' \in {"draining", "returned", "threw"}
          /\ Settled => syncPc' = syncPc]_vars

\* C25 witness: the abort request failed, and the call has thrown the
\* abort error to its caller with the queue idle.
C25_Witness ==
    /\ syncPc = "threw"
    /\ abortError # <<>>
    /\ raised = abortError
    /\ eventQueue = 0

\* Every batch of every array of every parsed graph-object file.
AllBatches ==
    {pb \in (1..(2 * Len(files))) \X Chunks : pb[2] <= batchesOf(files, pb[1])}

\* C28: the finalize request is made only when every batch of every
\* graph-object file has been POSTed with success, no batch is waiting, in
\* flight or between two attempts, and no batch has failed for good; no
\* POST of a batch follows it, and it never follows an error caught by
\* synchronizeCollectedData.
C28_FinalizeOnlyAfterAllUploads ==
    /\ []("finalize" \in requested =>
            /\ uploaded = AllBatches
            /\ ~pMapRejected
            /\ "lateUpload" \notin requested
            /\ \A b \in Chunks : chunks[b].state = "none")
    /\ []((pMapRejected \/ \E b \in Chunks : Failed(b))
            => "finalize" \notin requested)
    /\ [][("finalize" \in requested' /\ "finalize" \notin requested) =>
            /\ caught = <<>>
            /\ requested = {}
            /\ syncPc = "readingPartial"]_vars

\* C28 witness: the job was finalized after the two entity batches and the
\* two relationship batches of the file were uploaded.
C28_Witness ==
    /\ syncPc = "returned"
    /\ "finalize" \in requested
    /\ Cardinality(uploaded) = 2 * MaxChunks
    /\ uploaded = AllBatches

\* The POST of an attempt of batch b is issued in this step.
Posts(b) == chunks[b].state # "posting" /\ chunks'[b].state = "posting"

\* C29 as stated: once the abort request of the job has been made, no POST
\* of a batch is issued any more.
C29_NoUploadAfterAbort ==
    []["abort" \in requested => \A b \in DOMAIN chunks : ~Posts(b)]_vars

\* C29 amended: the abort request cancels no upload.  After it, a batch
\* that had not been started is never started and no other uploadData call
\* begins, but a batch that was in flight or between two attempts goes on
\* with its retry: each POST issued after the abort request is a further
\* attempt of a started batch that has attempts left, at most maxAttempts
\* in all, and what comes of it changes neither the error that
\* synchronizeCollectedData caught nor what it throws.
C29_AbortCancelsNoRetry ==
    /\ [](\A b \in DOMAIN chunks : chunks[b].attemptNum < maxAttempts)
    /\ []["abort" \in requested =>
            /\ pos' = pos
            /\ caught' = caught
            /\ raised' # raised => syncPc = "aborting"
            /\ \A b \in DOMAIN chunks :
                  /\ chunks[b].state \in {"none", "queued"}
                        => chunks'[b] = chunks[b]
                  /\ Posts(b) =>
                        /\ chunks[b].state = "delay"
                        /\ chunks[b].attemptsRemaining > 0
                        /\ chunks[b].attemptNum \in 1..(maxAttempts - 1)
                        /\ "lateUpload" \in requested']_vars

\* C29 witness: a batch failed for good while others were uploaded and one
\* waited to start; the call has thrown after the abort request, the
\* waiting batch was not started, and another batch is POSTed again.
C29_Witness ==
    /\ syncPc = "threw"
    /\ requested = {"abort", "lateUpload"}
    /\ \E a, b, c \in DOMAIN chunks :
          /\ Failed(a)
          /\ chunks[b].state = "posting" /\ chunks[b].attemptNum >= 1
          /\ chunks[c].state = "queued"
    /\ Cardinality(uploaded) >= 1

----------------------------------------------------------------------------
(* synchronization/index.ts: shrinkRawData                                 *)

\* Largest number of entities in the batch.
MaxEntities == 2

\* Largest number of _rawData entries in the batch, all entities together.
MaxEntries == 2

\* Number of characters of the long string value.
MaxChars == 20

\* Iterations of the loop of shrinkRawData after which the model leaves a
\* call that has not ended.
MaxIterations == 3

\* Calls of shrinkRawData made on one batch.
MaxCalls == 2

\* A rawData value is a string, written as its characters.
Empty == <<>>
Ok == <<"o", "k">>
Long == [i \in 1..MaxChars |-> "x"]
TRUNCATED == <<"T", "R", "U", "N", "C", "A", "T", "E", "D">>

Values == {Empty, Ok, Long}

\* The keys of the rawData maps of the batch handed to shrinkRawData.
Keys == {"big", "small"}

\* for (const item in data): the own keys in the order they were added.
KeyOrder == <<"big", "small", "">>

KeyLength(k) == CASE k = "big" -> 3 [] k = "small" -> 5 [] k = "" -> 0

RawDatas == UNION {[ks -> Values] : ks \in SUBSET Keys}

\* An entry of _rawData: { name: "default", rawData }.
Entries == [rawData : RawDatas]

\* An entity: { _key: "k" } or { _key: "k", _rawData: [...] }.
Entities ==
    {[hasRawData |-> FALSE, _rawData |-> <<>>]}
        \cup {[hasRawData |-> TRUE, _rawData |-> es] :
                 es \in UNION {[1..n -> Entries] : n \in 0..MaxEntries}}

RECURSIVE EntryCount(_)
EntryCount(batch) ==
    IF batch = <<>> THEN 0
    ELSE Len(Head(batch)._rawData) + EntryCount(Tail(batch))

Batches ==
    {batch \in UNION {[1..n -> Entities] : n \in 1..MaxEntities} :
        EntryCount(batch) <= MaxEntries}

\* How far below the serialized size of the batch the maxSize argument lies:
\* the batch fits exactly, is one byte too large, is as much too large as
\* the replacement of one long value saves, or one byte more.
Slack == {0, 1, MaxChars - 9, MaxChars - 8}

RECURSIVE JoinedLength(_)
\* Bytes of the members of an array or object, with the commas between them.
JoinedLength(lengths) ==
    IF lengths = <<>> THEN 0
    ELSE Head(lengths) + (IF Len(lengths) > 1 THEN 1 ELSE 0)
            + JoinedLength(Tail(lengths))

OwnKeys(rawData) == SelectSeq(KeyOrder, LAMBDA k : k \in DOMAIN rawData)

\* Buffer.byteLength(JSON.stringify(value)) of a string: its characters and
\* two double quotes.
stringifyValue(v) == Len(v) + 2

\* ... of a rawData map: the braces, and "key":value for every key.
stringifyRawData(rawData) ==
    LET keys == OwnKeys(rawData)
    IN 2 + JoinedLength([i \in 1..Len(keys) |->
                            KeyLength(keys[i]) + 3 + stringifyValue(rawData[keys[i]])])

\* ... of {"name":"default","rawData":{...}}.
stringifyEntry(entry) == 29 + stringifyRawData(entry.rawData)

\* ... of {"_key":"k"} or {"_key":"k","_rawData":[...]}.
stringifyEntity(entity) ==
    IF entity.hasRawData
    THEN 24 + 2 + JoinedLength([i \in 1..Len(entity._rawData) |->
                                   stringifyEntry(entity._rawData[i])])
    ELSE 12

\* Buffer.byteLength(JSON.stringify(data)) of the batch.
byteLength(batch) ==
    2 + JoinedLength([i \in 1..Len(batch) |-> stringifyEntity(batch[i])])

RECURSIVE LargestScan(_, _, _, _)
\* The loop of getLargestEntityFromBatch and getLargestRawDataEntryFromEntity:
\* the first item strictly longer than all before it, 0 (undefined) if none
\* is longer than 0.
LargestScan(lengths, i, largestItem, largestItemSize) ==
    IF i > Len(lengths) THEN largestItem
    ELSE IF lengths[i] > largestItemSize
         THEN LargestScan(lengths, i + 1, i, lengths[i])
         ELSE LargestScan(lengths, i + 1, largestItem, largestItemSize)

getLargestEntityFromBatch(batch) ==
    LargestScan([i \in 1..Len(batch) |-> stringifyEntity(batch[i])], 1, 0, 0)

getLargestRawDataEntryFromEntity(entries) ==
    LargestScan([i \in 1..Len(entries) |-> stringifyEntry(entries[i])], 1, 0, 0)

RECURSIVE LargestItemScan(_, _, _)
LargestItemScan(rawData, keys, largestItem) ==
    IF keys = <<>> THEN largestItem
    ELSE LET item == Head(keys)
             length == IF rawData[item] # Empty
                       THEN stringifyValue(rawData[item])
                       ELSE 0
         IN LargestItemScan(rawData, Tail(keys),
                            IF length > largestItem.size
                            THEN [key |-> item, size |-> length]
                            ELSE largestItem)

\* The key and the byte size of the largest value of a rawData map; a falsy
\* value counts as 0 bytes, and { key: '', size: 0 } is returned when no
\* value counts more.
getLargestItemKeyAndByteSize(rawData) ==
    LargestItemScan(rawData, OwnKeys(rawData), [key |-> "", size |-> 0])

\* rawData[key] = value
Assign(rawData, key, value) ==
    [k \in DOMAIN rawData \cup {key} |-> IF k = key THEN value ELSE rawData[k]]

\* Variant: the size of the replacement counted without its quotes.
sizeOfTruncated_unquoted == Len(TRUNCATED)

\* Buffer.byteLength("'TRUNCATED'")
sizeOfTruncated == Len(<<"'">> \o TRUNCATED \o <<"'">>)

\* Variant: the loop also runs when the batch is exactly maxSize bytes.
exceeds_orEqual(size, max) == size >= max

\* The condition of the while loop.
exceeds(size, max) == size > max

\* The variables of the other two specifications.
notShrink == <<schedulerVars, syncVars>>

\* A batch and a maxSize, before shrinkRawData is called.
InitShrink ==
    /\ SchedulerIdle
    /\ SyncIdle
    /\ shrinkPc = "ready"
    /\ data \in Batches
    /\ maxSize \in {byteLength(data) - d : d \in Slack}
    /\ initialSize = 0
    /\ totalSize = 0
    /\ itemsRemoved = 0
    /\ calls = 0

\* shrinkRawData(data, maxSize) is called, for the first time or on the
\* batch a call returned: the statements before the loop.
ShrinkCall ==
    /\ shrinkPc \in {"ready", "returned"}
    /\ calls < MaxCalls
    /\ calls' = calls + 1
    /\ totalSize' = byteLength(data)
    /\ initialSize' = totalSize'
    /\ itemsRemoved' = 0
    /\ shrinkPc' = "loop"
    /\ UNCHANGED <<data, maxSize>>
    /\ UNCHANGED notShrink

\* One iteration of the while loop.
ShrinkIterate ==
    /\ shrinkPc = "loop"
    /\ exceeds(totalSize, maxSize)
    /\ itemsRemoved < MaxIterations
    /\ LET e == getLargestEntityFromBatch(data)
       IN IF e = 0 \/ ~data[e].hasRawData
          THEN \* largestEntity?._rawData is undefined: INTEGRATION_UPLOAD_FAILED
               /\ shrinkPc' = "threw"
               /\ UNCHANGED <<data, totalSize, itemsRemoved>>
          ELSE LET r == getLargestRawDataEntryFromEntity(data[e]._rawData)
               IN IF r = 0
                  THEN \* largestRawDataEntry is undefined: a TypeError
                       /\ shrinkPc' = "typeError"
                       /\ UNCHANGED <<data, totalSize, itemsRemoved>>
                  ELSE LET largestItemLookup ==
                               getLargestItemKeyAndByteSize(data[e]._rawData[r].rawData)
                       IN /\ data' = [data EXCEPT ![e]._rawData[r].rawData =
                                         Assign(@, largestItemLookup.key, TRUNCATED)]
                          /\ itemsRemoved' = itemsRemoved + 1
                          /\ totalSize' = totalSize - largestItemLookup.size
                                             + sizeOfTruncated
                          /\ shrinkPc' = "loop"
    /\ UNCHANGED <<maxSize, initialSize, calls>>
    /\ UNCHANGED notShrink

\* The loop ends: the results are returned.
ShrinkReturn ==
    /\ shrinkPc = "loop"
    /\ ~exceeds(totalSize, maxSize)
    /\ shrinkPc' = "returned"
    /\ UNCHANGED <<data, maxSize, initialSize, totalSize, itemsRemoved, calls>>
    /\ UNCHANGED notShrink

NextShrink ==
    \/ ShrinkCall
    \/ ShrinkIterate
    \/ ShrinkReturn

SpecShrink == InitShrink /\ [][NextShrink]_vars

----------------------------------------------------------------------------
(* Properties of shrinkRawData                                             *)

\* The rawData maps of the batch, by entity and entry.
Places(batch) ==
    {<<e, r>> \in (1..MaxEntities) \X (1..MaxEntries) :
        /\ e <= Len(batch)
        /\ batch[e].hasRawData
        /\ r <= Len(batch[e]._rawData)}

RawDataAt(batch, pl) == batch[pl[1]]._rawData[pl[2]].rawData

\* Some rawData value of the batch is v.
HasValue(batch, v) ==
    \E pl \in Places(batch) :
        \E k \in DOMAIN RawDataAt(batch, pl) : RawDataAt(batch, pl)[k] = v

\* C15: when shrinkRawData returns, the serialized batch is at most maxSize
\* bytes long and the totalSize returned is its length, whatever the values
\* of the batch: long, short or empty.
C15_ReturnedBatchFits ==
    shrinkPc = "returned" =>
        /\ byteLength(data) <= maxSize
        /\ totalSize = byteLength(data)

\* C15 witness: a call returned after it replaced two values, of a batch
\* that also holds an empty value and a value shorter than the replacement.
C15_Witness ==
    /\ shrinkPc = "returned"
    /\ calls = 1
    /\ itemsRemoved = 2
    /\ HasValue(data, Empty)
    /\ HasValue(data, Ok)
    /\ HasValue(data, TRUNCATED)

\* C16: a call of shrinkRawData on a batch that is at most maxSize bytes
\* long returns itemsRemoved = 0 and leaves the batch as it is; the batch a
\* call returned is such a batch for a second call with the same maxSize.
C16_IdempotentOnceBatchFits ==
    /\ []((shrinkPc \in {"loop", "returned"} /\ initialSize <= maxSize)
            => /\ itemsRemoved = 0
               /\ totalSize = initialSize
               /\ byteLength(data) = initialSize)
    /\ []((calls = MaxCalls /\ shrinkPc \in {"loop", "returned"})
            => initialSize <= maxSize)
    /\ [][/\ (shrinkPc = "loop" /\ initialSize <= maxSize)
                => (shrinkPc' = "returned" /\ data' = data /\ itemsRemoved' = 0)
          /\ calls = MaxCalls => data' = data]_vars

\* C16 witness: the second call, on a batch in which the first call
\* replaced a value, returned itemsRemoved = 0.
C16_Witness ==
    /\ calls = MaxCalls
    /\ shrinkPc = "returned"
    /\ itemsRemoved = 0
    /\ HasValue(data, TRUNCATED)

\* The largest serialized length among the items of lengths.
IsLargest(lengths, i) == \A j \in DOMAIN lengths : lengths[j] <= lengths[i]

\* The step replaces the value of the key k that exists at place pl, and
\* nothing else.
ReplacesOnly(pl, k) ==
    /\ k \in DOMAIN RawDataAt(data, pl)
    /\ data' = [data EXCEPT ![pl[1]]._rawData[pl[2]].rawData[k] = TRUNCATED]

\* C17 as stated: an iteration of the loop of shrinkRawData replaces one
\* value that exists in the batch with "TRUNCATED", the largest value of
\* the rawData map of the largest _rawData entry of the largest entity; it
\* adds one to itemsRemoved, adds or removes no key and no entity, and
\* leaves every other value as it is.
C17_IterationReplacesLargestValue ==
    [][(shrinkPc = "loop" /\ shrinkPc' = "loop") =>
          /\ itemsRemoved' = itemsRemoved + 1
          /\ \E pl \in Places(data) : \E k \in Keys \cup {""} :
                /\ ReplacesOnly(pl, k)
                /\ IsLargest([e \in 1..Len(data) |-> stringifyEntity(data[e])], pl[1])
                /\ IsLargest([r \in 1..Len(data[pl[1]]._rawData) |->
                                 stringifyEntry(data[pl[1]]._rawData[r])], pl[2])
                /\ \A j \in DOMAIN RawDataAt(data, pl) :
                      stringifyValue(RawDataAt(data, pl)[j])
                          <= stringifyValue(RawDataAt(data, pl)[k])]_vars

\* The largest entity of the batch has no _rawData to shrink: there is no
\* largest entity, it has no _rawData property, or its _rawData is [].
NothingToShrink ==
    LET e == getLargestEntityFromBatch(data)
    IN e = 0 \/ ~data[e].hasRawData \/ data[e]._rawData = <<>>

\* C26 as stated: when the batch is larger than maxSize and its largest
\* entity has no _rawData to shrink, the iteration of shrinkRawData leaves
\* the batch as it is and raises INTEGRATION_UPLOAD_FAILED, no other error.
C26_NothingToShrinkRaisesUploadFailed ==
    [][(shrinkPc = "loop" /\ exceeds(totalSize, maxSize) /\ NothingToShrink
          /\ shrinkPc' # shrinkPc)
            => (shrinkPc' = "threw" /\ data' = data)]_vars

\* C27 as stated: shrinkRawData ends for every batch and every maxSize.  Its
\* loop is deterministic, so it ends only if no iteration hands the next
\* one the same batch and the same totalSize, still larger than maxSize.
C27_NoIterationRepeatsItself ==
    [][(shrinkPc = "loop" /\ shrinkPc' = "loop" /\ itemsRemoved' # itemsRemoved)
          => ~(/\ data' = data
               /\ totalSize' = totalSize
               /\ exceeds(totalSize', maxSize))]_vars

----------------------------------------------------------------------------
(* Further properties of executeStepDependencyGraph                        *)

\* C18 as stated: a step whose jobState.flush() or whose
\* waitUntilUploadsComplete() failed gets the status FAILURE, and its
\* failure does not halt the run: the queue is not paused and the run is
\* not rejected on its account.
C18_FlushOrUploadFailureIsNonFatal ==
    \A s \in Steps :
        (escaped[s] = "flush" \/ uploads[s] = "failed") =>
            /\ result(s) = FAILURE
            /\ escaped[s] = "none"
            /\ runPromise.reason # <<ErrorOf(s)>>

\* How far the executeStep call of a step has come.
Progress(p) ==
    CASE p = "waiting" -> 0
      [] p = "cache" -> 1
      [] p = "handler" -> 2
      [] p = "flush" -> 3
      [] p = "upload" -> 4
      [] p = "settled" -> 5
      [] p = "finished" -> 6

\* The number of tasks of step s that wait in the queue.
Queued(s) == Cardinality({i \in 1..Len(queue) : queue[i] = s})

\* C19: in every interleaving a step is dispatched at most once per run: it
\* leaves the working graph when it is dispatched and never returns to it,
\* it has at most one task, and its executeStep call starts once and never
\* starts over.  Its result status is written at most once: it changes only
\* from PENDING_EVALUATION, only at the end of its own executeStep call, and
\* a terminal status, DISABLED included, never changes.
C19_DispatchedAndWrittenOnce ==
    /\ [](phase = "running" =>
            \A s \in Steps :
                /\ Queued(s) <= 1
                /\ Queued(s) = 1 => (pc[s] = "waiting" /\ s \notin workingGraph)
                /\ pc[s] # "waiting" => s \notin workingGraph
                /\ Progress(pc[s]) \in 1..4 => result(s) = PENDING_EVALUATION
                /\ pc[s] = "waiting"
                      => result(s) \in {PENDING_EVALUATION, DISABLED}
                /\ s \in workingGraph
                      => result(s) \in {PENDING_EVALUATION, DISABLED})
    /\ [][phase = "running" =>
            \A s \in Steps :
                /\ s \notin workingGraph => s \notin workingGraph'
                /\ Progress(pc'[s]) >= Progress(pc[s])
                /\ (handler[s] # "none" /\ handler'[s] = "invoked")
                      => handler[s] = "invoked"
                /\ result(s) # PENDING_EVALUATION => result(s)' = result(s)
                /\ result(s)' # result(s)
                      => /\ pc[s] \in {"flush", "upload"}
                         /\ pc'[s] = "settled"]_vars

\* C19 witness: the run resolved after two steps were in flight together;
\* one step stayed DISABLED, one ended SUCCESS and one FAILURE.
C19_Witness ==
    /\ runPromise.state = "resolved"
    /\ \E a, b, c \in Steps :
          /\ result(a) = DISABLED /\ pc[a] = "waiting"
          /\ result(b) = SUCCESS /\ pc[b] = "finished"
          /\ result(c) = FAILURE /\ pc[c] = "finished"
          /\ dependsOn[b] = {} /\ dependsOn[c] = {}

\* C20 as stated: a cache load that returns yields CACHED exactly when it
\* loaded at least one entity or relationship, and a step whose cache
\* directory holds no object has its handler invoked.
C20_CachedIffObjectsLoaded ==
    \A s \in Steps :
        cacheYield[s].outcome = "returned" =>
            /\ cacheYield[s].status = CACHED <=> cacheYield[s].objects > 0
            /\ cacheYield[s].objects = 0 => handler[s] # "none"

\* C21: a dispatched step goes through its executeStep call in one order:
\* the cache load or the executionHandler ends, then jobState.flush() is
\* called, once, then waitUntilUploadsComplete() is awaited when the job
\* state has one, and only then is the status of the step recorded.  So a
\* step starts only when each step it depends on that was dispatched has
\* had its flush and its upload wait completed.
C21_FlushThenUploadsThenStatus ==
    /\ [](phase = "running" =>
            \A t \in Steps : \A d \in dependsOn[t] \cap Steps :
                (Dispatched(t) /\ ~stepStartStates[d].disabled) =>
                    /\ Completed(d)
                    /\ hasUploader => uploads[d] \in {"ok", "failed"})
    /\ [][phase = "running" =>
            \A s \in Steps :
                /\ (pc[s] # "flush" /\ pc'[s] = "flush")
                      => /\ pc[s] \in {"cache", "handler"}
                         /\ \/ handler'[s] \in {"returned", "threw"}
                            \/ cacheYield'[s].outcome \in {"returned", "threw"}
                /\ pc[s] = "flush" => pc'[s] \in {"flush", "upload", "settled"}
                /\ (pc[s] # "upload" /\ pc'[s] = "upload")
                      => (pc[s] = "flush" /\ hasUploader)
                /\ pc[s] = "upload" => pc'[s] \in {"upload", "settled"}
                /\ result(s)' # result(s)
                      => /\ pc[s] = (IF hasUploader THEN "upload" ELSE "flush")
                         /\ hasUploader => uploads'[s] \in {"ok", "failed"}]_vars

\* C21 witness: with an uploader, a step was dispatched after the step it
\* depends on was flushed, had its uploads awaited and got its status.
C21_Witness ==
    /\ phase = "running" /\ hasUploader
    /\ \E t \in Steps : \E d \in dependsOn[t] \cap Steps :
          /\ pc[t] = "handler"
          /\ uploads[d] = "ok"
          /\ result(d) = SUCCESS

\* C22: when loadCacheForStep throws an error without the fatal marker,
\* also after it loaded objects, the error does not leave executeStep, the
\* status of the step is FAILURE, its executionHandler is never invoked, and
\* the run goes on: when it resolves, every step that depends on the failed
\* step, unless disabled, has been executed.
C22_CacheLoadErrorFailsStep ==
    phase = "running" =>
        \A s \in Steps : cacheYield[s].outcome = "threw" =>
            /\ handler[s] = "none"
            /\ escaped[s] \in {"none", "flush"}
            /\ pc[s] \in {"flush", "upload"} => status[s] = FAILURE
            /\ Completed(s) => result(s) = FAILURE
            /\ runPromise.state = "resolved" =>
                  \A t \in Steps :
                      (s \in TransitiveDependencies(t) /\ ~DisabledByStartStates(t))
                          => /\ Completed(t)
                             /\ handler[t] # "none" \/ cacheYield[t].outcome # "none"

\* C22 witness: the run resolved; a cache load threw after loading an
\* object, its step ended FAILURE without a handler call, and a step that
\* depends on it ran its handler.
C22_Witness ==
    /\ runPromise.state = "resolved"
    /\ \E s, t \in Steps :
          /\ cacheYield[s].outcome = "threw" /\ cacheYield[s].objects > 0
          /\ handler[s] = "none"
          /\ resultStatus(runPromise.value, s) = FAILURE
          /\ s \in dependsOn[t]
          /\ handler[t] = "returned" /\ result(t) = PARTIAL

\* Nothing is left to run: every executeStep call that started has ended,
\* its task has settled, and no task waits in the queue.
Quiescent ==
    /\ phase = "running"
    /\ queue = <<>>
    /\ \A s \in Steps : pc[s] \in {"waiting", "finished"}

\* C30 as stated: when every handler, cache load, flush and upload wait has
\* ended and no error marked fatal was thrown, every step that is enabled
\* and depends on no disabled step has been dispatched and has a terminal
\* status, none is left in the working graph, and the run has resolved.
C30_NoStepStranded ==
    (Quiescent /\ \A s \in Steps : ~ThrewFatal(s)) =>
        /\ runPromise.state = "resolved"
        /\ \A s \in Steps : ~DisabledByStartStates(s) =>
              /\ Dispatched(s)
              /\ s \notin workingGraph
              /\ result(s) \in {SUCCESS, FAILURE, PARTIAL, CACHED}

====
